---- MODULE Spec2Model ----
(***************************************************************************)
(* Route Planning Core of the street-coverage planner                      *)
(* (src/app/components/planner/CompletionSection.tsx).                     *)
(*                                                                         *)
(* Number representation.  The source computes in IEEE doubles; the model  *)
(* computes in integers:                                                   *)
(*   - a LatLng is a point of a local metric frame, [lat, lon] in whole    *)
(*     metres north / east of the frame origin;                            *)
(*   - every "...Km" quantity is held in metres (1/1000 km);               *)
(*   - a comparison against a decimal multiple of a length is made after   *)
(*     multiplying both sides by the power of ten that clears the decimals *)
(*     (d >= t * 0.48 becomes d * 100 >= t * 48);                          *)
(*   - a score is held in units of 1/10000, the one division of each score *)
(*     formula being an integer division.                                  *)
(***************************************************************************)
EXTENDS Integers, Sequences, FiniteSets, TLC

VARIABLES
    streets, home, targetKm, cityBounds,      \* the arguments of the request
    pc,                                       \* position in buildEfficientCoverageRoute
    graph, startNodeId, completedByStreetId,
    dijkstraCache, dijkstraRuns,
    routePoints, coveredStreetIds, coveredStreetNames, rewardedStreetIds,
    coveredNodes, traversedEdgeCount,
    currentNodeId, distanceKm, iterations,
    mainSite,                                 \* which sweep pair of the loop body runs
    spurCaller, maxSweeps, spurSweeps, spurSteps, anchorNodeId,
    maxSteps, stepCount,
    connectorSteps, targetStep,
    lastApplied,                              \* the step applied last and where it was applied
    moveStartKm,                              \* distanceKm when the move of that step began
    result,
    \* normalizeStreetName: argument, result, result of the result
    streetName, normalizedOnce, normalizedTwice,
    \* dedupeByName: argument and result
    segments, deduped,
    \* parseOverpassResponse: argument and result
    payload, parsed,
    \* constrainToCityLimits: input, nominatimGeo, polygonFiltered, result
    limitsInput, cityLimits, polygonFiltered, constrained,
    \* loadStreetsFromOSM and requestOverpass
    city, loadPc, variantIndex, areaResults,
    nominatimGeo, bboxStreets, aroundStreets, endpointIndex,
    failures, contacts, callOutcome, anyOverpassOk,
    nominatimLog, loadResult,
    \* the page: planner state, suggestions, active route, status message, the asynchronous handler in flight, the last handler that ended
    planner, suggestions, activeRouteId, message,
    loadingCity, pending, lastEvent,
    \* routeToGPX and parseActivityPoints: the route, its GPX text, the points parsed from the text
    gpxRoute, gpxText, reparsed,
    \* eulerizeEdgeSet and buildEulerTraversal: graph, edgeIds, startNodeId, position, and the locals of the two functions
    eulerGraph, selectedEdgeIds, eulerStart, eulerPc,
    multiset, oddNodes, eulerCache, tokens,
    tokenAdjacency, used, tokenCursor, stack,
    reversed, traversal

vars == << streets, home, targetKm, cityBounds, pc, graph, startNodeId,
           completedByStreetId, dijkstraCache, dijkstraRuns, routePoints,
           coveredStreetIds, coveredStreetNames, rewardedStreetIds, coveredNodes,
           traversedEdgeCount, currentNodeId, distanceKm, iterations, mainSite,
           spurCaller, maxSweeps, spurSweeps, spurSteps, anchorNodeId, maxSteps,
           stepCount, connectorSteps, targetStep, lastApplied, moveStartKm, result,
           streetName, normalizedOnce, normalizedTwice, segments, deduped,
           payload, parsed, limitsInput, cityLimits, polygonFiltered,
           constrained, city, loadPc, variantIndex, areaResults, nominatimGeo,
           bboxStreets, aroundStreets, endpointIndex, failures, contacts,
           callOutcome, anyOverpassOk, nominatimLog, loadResult, planner,
           suggestions, activeRouteId, message, loadingCity, pending, lastEvent,
           gpxRoute, gpxText, reparsed, eulerGraph, selectedEdgeIds, eulerStart,
           eulerPc, multiset, oddNodes, eulerCache, tokens, tokenAdjacency,
           used, tokenCursor, stack, reversed, traversal >>

-----------------------------------------------------------------------------
(* Small helpers *)

Min(a, b) == IF a <= b THEN a ELSE b
Max(a, b) == IF a >= b THEN a ELSE b
Abs(a) == IF a >= 0 THEN a ELSE 0 - a
EmptyMap == [k \in {} |-> 0]
Range(s) == { s[i] : i \in DOMAIN s }
Reverse(s) == [i \in 1..Len(s) |-> s[Len(s) + 1 - i]]
SetAdd(seq, x) == IF x \in Range(seq) THEN seq ELSE Append(seq, x)

\* Math.round(n / d) for n >= 0, d > 0
RoundDiv(n, d) == (2 * n + d) \div (2 * d)

\* Math.round(sqrt(n)) for n >= 0
RECURSIVE SqrtFloorFrom(_, _)
SqrtFloorFrom(n, r) == IF (r + 1) * (r + 1) > n THEN r ELSE SqrtFloorFrom(n, r + 1)
SqrtRound(n) ==
    LET r == SqrtFloorFrom(n, 0)
    IN  IF n - r * r > r THEN r + 1 ELSE r

POSITIVE_INFINITY == 2147483647

-----------------------------------------------------------------------------
(* Geo primitives *)

Pt(lat, lon) == [lat |-> lat, lon |-> lon]

\* squared planar distance, metres^2
DistanceSq(a, b) ==
    (a.lat - b.lat) * (a.lat - b.lat) + (a.lon - b.lon) * (a.lon - b.lon)

\* great-circle distance; in the local frame the planar distance, whole metres.
\* Exact for the axis-parallel steps the street paths of the model are made of.
haversineKm(a, b) ==
    IF a.lat = b.lat THEN Abs(a.lon - b.lon)
    ELSE IF a.lon = b.lon THEN Abs(a.lat - b.lat)
    ELSE SqrtRound(DistanceSq(a, b))

RECURSIVE polylineFrom(_, _)
polylineFrom(path, i) ==
    IF i > Len(path) THEN 0
    ELSE haversineKm(path[i - 1], path[i]) + polylineFrom(path, i + 1)

polylineDistanceKm(path) == IF Len(path) < 2 THEN 0 ELSE polylineFrom(path, 2)

NODE_CAPTURE_RADIUS_METERS == 6096       \* millimetres

\* squared distance (metres^2) from p to the segment a-b: the projection
\* parameter t = dot / ab2 clamped to [0, 1], closest = a + ab * t.
distancePointToSegmentMeters(p, a, b) ==
    LET abx == b.lon - a.lon
        aby == b.lat - a.lat
        apx == p.lon - a.lon
        apy == p.lat - a.lat
        ab2 == abx * abx + aby * aby
    IN  IF ab2 = 0 THEN apx * apx + apy * apy
        ELSE LET dot == Max(0, Min(ab2, apx * abx + apy * aby))
                 closestX == a.lon + (abx * dot) \div ab2
                 closestY == a.lat + (aby * dot) \div ab2
             IN  (p.lon - closestX) * (p.lon - closestX)
                   + (p.lat - closestY) * (p.lat - closestY)

RECURSIVE pathMinFrom(_, _, _, _)
pathMinFrom(point, path, i, minDistance) ==
    IF i > Len(path) THEN minDistance
    ELSE LET distance == distancePointToSegmentMeters(point, path[i - 1], path[i])
         IN  pathMinFrom(point, path, i + 1,
                         IF distance < minDistance THEN distance ELSE minDistance)

\* squared metres; POSITIVE_INFINITY for a path of fewer than two points
distancePointToPathMeters(point, path) ==
    IF Len(path) < 2 THEN POSITIVE_INFINITY
    ELSE pathMinFrom(point, path, 2, POSITIVE_INFINITY)

-----------------------------------------------------------------------------
(* City bounding box *)

PADDING_METERS == 40

isPointInCityBounds(point, bounds) ==
    /\ point.lat >= bounds.south - PADDING_METERS
    /\ point.lat <= bounds.north + PADDING_METERS
    /\ point.lon >= bounds.west - PADDING_METERS
    /\ point.lon <= bounds.east + PADDING_METERS

isStreetInsideCityBounds(street, bounds) ==
    IF Len(street.path) < 2 THEN FALSE
    ELSE IF \/ ~isPointInCityBounds(street.path[1], bounds)
            \/ ~isPointInCityBounds(street.path[Len(street.path)], bounds)
         THEN FALSE
    ELSE LET insideCount ==
                 Cardinality({ i \in DOMAIN street.path :
                                 isPointInCityBounds(street.path[i], bounds) })
         IN  insideCount * 100 >= 72 * Len(street.path)

filterStreetsToCityBounds(input, bounds) ==
    SelectSeq(input, LAMBDA street : isStreetInsideCityBounds(street, bounds))

-----------------------------------------------------------------------------
(* Candidate selection *)

normalizeTargetKm(t) == Max(800, t)

\* the squared entry distance: min(haversine(home, start), haversine(home, end))
entryOf(street, homePoint) ==
    Min(DistanceSq(homePoint, street.path[1]),
        DistanceSq(homePoint, street.path[Len(street.path)]))

\* Array.prototype.sort is stable: insert each element after its equals
RECURSIVE insertByEntry(_, _, _)
insertByEntry(sorted, street, homePoint) ==
    IF sorted = << >> THEN << street >>
    ELSE IF entryOf(sorted[Len(sorted)], homePoint) <= entryOf(street, homePoint)
         THEN Append(sorted, street)
    ELSE Append(insertByEntry(SubSeq(sorted, 1, Len(sorted) - 1), street, homePoint),
                sorted[Len(sorted)])

RECURSIVE sortByEntry(_, _, _)
sortByEntry(input, i, homePoint) ==
    IF i = 0 THEN << >>
    ELSE insertByEntry(sortByEntry(input, i - 1, homePoint), input[i], homePoint)

selectCandidateStreets(input, homePoint, t) ==
    LET normalizedTargetKm == Max(800, t)
        withPath == SelectSeq(input, LAMBDA street : Len(street.path) >= 2)
        scored == sortByEntry(withPath, Len(withPath), homePoint)
        \* radius in centimetres, and the floor of its square in metres^2
        radius == Max(220000, Min(3200000, normalizedTargetKm * 145 + 130000))
        radiusM == radius \div 100
        radiusCm == radius % 100
        radiusSq == radiusM * radiusM + (200 * radiusM * radiusCm + radiusCm * radiusCm) \div 10000
        maxByRadius == Min(4200, Max(320, RoundDiv(normalizedTargetKm * 168, 1000)))
        inRadius == SelectSeq(scored, LAMBDA street : entryOf(street, homePoint) <= radiusSq)
        byRadius == SubSeq(inRadius, 1, Min(Len(inRadius), maxByRadius))
        fallbackCount == Min(Len(scored), Max(320, RoundDiv(normalizedTargetKm * 72, 1000)))
    IN  IF Len(scored) = 0 THEN << >>
        ELSE IF Len(byRadius) >= Max(120, RoundDiv(normalizedTargetKm * 22, 1000))
             THEN byRadius
        ELSE SubSeq(scored, 1, fallbackCount)

-----------------------------------------------------------------------------
(* Street graph *)

\* Node ids are strings in the source; the model writes them as triples:
\* <<"osm-node", raw, 0>> for an OSM node, <<"q", lat, lon>> for a quantized point.
NoNodeId == << "undefined", 0, 0 >>
OsmNode(raw) == << "osm-node", raw, 0 >>

\* toFixed(5) of a degree value is a grid of 1.1132 m in the local frame
toFixed5(v) ==
    IF v >= 0 THEN RoundDiv(v * 10000, 11132) ELSE 0 - RoundDiv((0 - v) * 10000, 11132)

quantizePoint(point) == << "q", toFixed5(point.lat), toFixed5(point.lon) >>

nodeIdForStreetEndpoint(street, endpoint) ==
    IF endpoint = "start"
    THEN (IF street.startNodeId # NoNodeId THEN street.startNodeId
          ELSE quantizePoint(street.path[1]))
    ELSE (IF street.endNodeId # NoNodeId THEN street.endNodeId
          ELSE quantizePoint(street.path[Len(street.path)]))

\* nodes/edges/adjacency are the three Maps; nodeOrder and edgeOrder are the
\* insertion orders of nodes and edges, which Map iteration follows.
EmptyGraph ==
    [ nodes |-> EmptyMap, nodeOrder |-> << >>,
      edges |-> EmptyMap, edgeOrder |-> << >>,
      adjacency |-> EmptyMap ]

MapSetIfAbsent(map, key, value) ==
    IF key \in DOMAIN map THEN map ELSE map @@ (key :> value)

\* an adjacency that records the street at its start node only
pushOneWay(adjacency, edgeId, from, to) ==
    [adjacency EXCEPT ![from] = Append(@, [edgeId |-> edgeId, neighbor |-> to])]

\* the adjacency pushes of one street (source lines 1804-1805)
pushAdjacency(adjacency, edgeId, from, to) ==
    LET a1 == [adjacency EXCEPT ![from] = Append(@, [edgeId |-> edgeId, neighbor |-> to])]
    IN  [a1 EXCEPT ![to] = Append(@, [edgeId |-> edgeId, neighbor |-> from])]

\* one iteration of the loop of buildStreetGraph
addStreetToGraph(g, street) ==
    IF Len(street.path) < 2 THEN g
    ELSE
    LET startPoint == street.path[1]
        endPoint == street.path[Len(street.path)]
        from == nodeIdForStreetEndpoint(street, "start")
        to == nodeIdForStreetEndpoint(street, "end")
        edgeId == street.id
        nodes1 == MapSetIfAbsent(g.nodes, from,
                                 [id |-> from, point |-> startPoint, edgeIds |-> << >>])
        order1 == SetAdd(g.nodeOrder, from)
        nodes2 == MapSetIfAbsent(nodes1, to,
                                 [id |-> to, point |-> endPoint, edgeIds |-> << >>])
        order2 == SetAdd(order1, to)
        edge == [ id |-> edgeId, streetId |-> street.id, streetName |-> street.name,
                  from |-> from, to |-> to, path |-> street.path,
                  distanceKm |-> polylineDistanceKm(street.path) ]
        nodes3 == [nodes2 EXCEPT ![from].edgeIds = Append(@, edgeId)]
        nodes4 == [nodes3 EXCEPT ![to].edgeIds = Append(@, edgeId)]
        adj1 == MapSetIfAbsent(g.adjacency, from, << >>)
        adj2 == MapSetIfAbsent(adj1, to, << >>)
    IN  [ nodes |-> nodes4, nodeOrder |-> order2,
          edges |-> (edgeId :> edge) @@ g.edges,
          edgeOrder |-> SetAdd(g.edgeOrder, edgeId),
          adjacency |-> pushAdjacency(adj2, edgeId, from, to) ]

RECURSIVE buildStreetGraphFrom(_, _)
buildStreetGraphFrom(input, i) ==
    IF i = 0 THEN EmptyGraph
    ELSE addStreetToGraph(buildStreetGraphFrom(input, i - 1), input[i])

buildStreetGraph(input) == buildStreetGraphFrom(input, Len(input))

adjacencyOf(g, nodeId) ==
    IF nodeId \in DOMAIN g.adjacency THEN g.adjacency[nodeId] ELSE << >>

degreeOf(g, nodeId) == Len(adjacencyOf(g, nodeId))

-----------------------------------------------------------------------------
(* Binary min-heap on distance (class MinHeap); index i of the source's
   array is index i + 1 of the sequence *)

Swap(data, i, j) == [data EXCEPT ![i] = data[j], ![j] = data[i]]

RECURSIVE bubbleUp(_, _)
bubbleUp(data, current) ==
    IF current <= 0 THEN data
    ELSE LET parent == (current - 1) \div 2
         IN  IF data[current + 1].distance - data[parent + 1].distance >= 0 THEN data
             ELSE bubbleUp(Swap(data, current + 1, parent + 1), parent)

RECURSIVE bubbleDown(_, _)
bubbleDown(data, current) ==
    LET length == Len(data)
        left == current * 2 + 1
        right == left + 1
        s1 == IF left < length /\ data[left + 1].distance - data[current + 1].distance < 0
              THEN left ELSE current
        smallest == IF right < length /\ data[right + 1].distance - data[s1 + 1].distance < 0
                    THEN right ELSE s1
    IN  IF smallest = current THEN data
        ELSE bubbleDown(Swap(data, current + 1, smallest + 1), smallest)

heapPush(data, value) == bubbleUp(Append(data, value), Len(data))

\* the heap after pop(); the popped value is data[1]
heapPop(data) ==
    LET end == data[Len(data)]
        rest == SubSeq(data, 1, Len(data) - 1)
    IN  IF Len(rest) > 0 THEN bubbleDown([rest EXCEPT ![1] = end], 0) ELSE rest

-----------------------------------------------------------------------------
(* Shortest-path engine *)

MapGet(map, key, default) == IF key \in DOMAIN map THEN map[key] ELSE default

\* a relaxation that only ever labels a node once
improvesUnseen(nextDistance, known) == known = POSITIVE_INFINITY

\* the relaxation test of runDijkstra (source line 1921)
improves(nextDistance, known) == nextDistance < known

\* the for-loop over the neighbours of the popped node
RECURSIVE relaxNeighbors(_, _, _, _, _)
relaxNeighbors(g, st, current, neighbors, i) ==
    IF i > Len(neighbors) THEN st
    ELSE
    LET neighbor == neighbors[i]
    IN  IF neighbor.edgeId \notin DOMAIN g.edges
        THEN relaxNeighbors(g, st, current, neighbors, i + 1)
        ELSE
        LET edge == g.edges[neighbor.edgeId]
            nextDistance == current.distance + edge.distanceKm
            known == MapGet(st.dist, neighbor.neighbor, POSITIVE_INFINITY)
        IN  IF improves(nextDistance, known)
            THEN relaxNeighbors(g,
                    [ dist |-> (neighbor.neighbor :> nextDistance) @@ st.dist,
                      prev |-> (neighbor.neighbor :>
                                  [nodeId |-> current.nodeId, edgeId |-> neighbor.edgeId])
                               @@ st.prev,
                      heap |-> heapPush(st.heap,
                                  [nodeId |-> neighbor.neighbor, distance |-> nextDistance]) ],
                    current, neighbors, i + 1)
            ELSE relaxNeighbors(g, st, current, neighbors, i + 1)

\* the while-loop on the heap
RECURSIVE dijkstraLoop(_, _)
dijkstraLoop(g, st) ==
    IF Len(st.heap) = 0 THEN st
    ELSE
    LET current == st.heap[1]
        popped == [st EXCEPT !.heap = heapPop(st.heap)]
        best == MapGet(st.dist, current.nodeId, POSITIVE_INFINITY)
    IN  IF current.distance > best THEN dijkstraLoop(g, popped)
        ELSE dijkstraLoop(g,
                relaxNeighbors(g, popped, current, adjacencyOf(g, current.nodeId), 1))

runDijkstra(g, source) ==
    LET dist0 == (source :> 0) @@ [n \in DOMAIN g.nodes |-> POSITIVE_INFINITY]
        final == dijkstraLoop(g,
                    [ dist |-> dist0, prev |-> EmptyMap,
                      heap |-> heapPush(<< >>, [nodeId |-> source, distance |-> 0]) ])
    IN  [dist |-> final.dist, prev |-> final.prev]

\* a cache that stores nothing
cacheWithoutStore(cache, g, source) == cache

\* the result of getDijkstraCached; the cache update is cacheAfter
getDijkstraCached(cache, g, source) ==
    IF source \in DOMAIN cache THEN cache[source] ELSE runDijkstra(g, source)

cacheAfter(cache, g, source) ==
    IF source \in DOMAIN cache THEN cache ELSE cache @@ (source :> runDijkstra(g, source))

RECURSIVE reconstructWalk(_, _, _, _)
reconstructWalk(res, source, cursor, edgesSoFar) ==
    IF cursor = source THEN Reverse(edgesSoFar)
    ELSE IF cursor \notin DOMAIN res.prev THEN << >>
    ELSE reconstructWalk(res, source, res.prev[cursor].nodeId,
                         Append(edgesSoFar, res.prev[cursor].edgeId))

reconstructPathEdges(res, source, endNodeId) ==
    IF source = endNodeId THEN << >> ELSE reconstructWalk(res, source, endNodeId, << >>)

shortestPathEdges(g, cache, fromNodeId, toNodeId) ==
    LET res == getDijkstraCached(cache, g, fromNodeId)
        d == MapGet(res.dist, toNodeId, POSITIVE_INFINITY)
    IN  IF d = POSITIVE_INFINITY
        THEN [distanceKm |-> POSITIVE_INFINITY, edgeIds |-> << >>]
        ELSE [distanceKm |-> d, edgeIds |-> reconstructPathEdges(res, fromNodeId, toNodeId)]

\* first strict minimum in insertion order
RECURSIVE nearestFrom(_, _, _, _, _)
nearestFrom(g, target, i, bestId, bestDistance) ==
    IF i > Len(g.nodeOrder) THEN bestId
    ELSE LET node == g.nodes[g.nodeOrder[i]]
             distance == DistanceSq(node.point, target)
         IN  IF distance < bestDistance
             THEN nearestFrom(g, target, i + 1, node.id, distance)
             ELSE nearestFrom(g, target, i + 1, bestId, bestDistance)

\* NullNodeId stands for the null of "string | null"
NullNodeId == << "null", 0, 0 >>

findNearestNodeId(g, target) == nearestFrom(g, target, 1, NullNodeId, POSITIVE_INFINITY)

-----------------------------------------------------------------------------
(* Traversal steps *)

Step(edgeId, from, to) == [edgeId |-> edgeId, from |-> from, to |-> to]
NoStep == [edgeId |-> "", from |-> NullNodeId, to |-> NullNodeId]

\* a loop that lets a later candidate of equal score win
bestIndexOfLast(cands) ==
    LET valid == { i \in DOMAIN cands : cands[i].valid }
    IN  IF valid = {} THEN 0
        ELSE CHOOSE i \in valid :
               \A j \in valid : \/ cands[j].score < cands[i].score
                                \/ (cands[j].score = cands[i].score /\ j <= i)

\* index of the winner of a "if (!best || candidate.score > best.score)" loop
\* over candidates [valid, score, ...]; 0 when no candidate is valid
bestIndex(cands) ==
    LET valid == { i \in DOMAIN cands : cands[i].valid }
    IN  IF valid = {} THEN 0
        ELSE CHOOSE i \in valid :
               \A j \in valid : \/ cands[j].score < cands[i].score
                                \/ (cands[j].score = cands[i].score /\ j >= i)

\* [ok, steps]; ok = FALSE is the null result
RECURSIVE orientFrom(_, _, _, _, _)
orientFrom(g, cursor, edgeIds, i, steps) ==
    IF i > Len(edgeIds) THEN [ok |-> TRUE, steps |-> steps]
    ELSE IF edgeIds[i] \notin DOMAIN g.edges THEN [ok |-> FALSE, steps |-> << >>]
    ELSE LET edge == g.edges[edgeIds[i]]
         IN  IF edge.from = cursor
             THEN orientFrom(g, edge.to, edgeIds, i + 1,
                             Append(steps, Step(edgeIds[i], edge.from, edge.to)))
             ELSE IF edge.to = cursor
             THEN orientFrom(g, edge.from, edgeIds, i + 1,
                             Append(steps, Step(edgeIds[i], edge.to, edge.from)))
             ELSE [ok |-> FALSE, steps |-> << >>]

orientPathEdges(g, start, edgeIds) ==
    IF Len(edgeIds) = 0 THEN [ok |-> TRUE, steps |-> << >>]
    ELSE orientFrom(g, start, edgeIds, 1, << >>)

JOIN_KM == 18

\* whether appendRouteStep pushes orientedPath[0] (source lines 2465-2471)
pushesFirstPoint(points, first) ==
    \/ Len(points) = 0
    \/ DistanceSq(points[Len(points)], first) > JOIN_KM * JOIN_KM

\* [ok, points, distanceKm, edge]; ok = FALSE is the null result
appendRouteStep(g, step, points) ==
    IF step.edgeId \notin DOMAIN g.edges
    THEN [ok |-> FALSE, points |-> points, distanceKm |-> 0, edge |-> NoStep]
    ELSE
    LET edge == g.edges[step.edgeId]
        orientedPath == IF edge.from = step.from /\ edge.to = step.to
                        THEN edge.path ELSE Reverse(edge.path)
    IN  IF Len(orientedPath) < 2
        THEN [ok |-> FALSE, points |-> points, distanceKm |-> 0, edge |-> NoStep]
        ELSE [ ok |-> TRUE,
               points |-> (IF pushesFirstPoint(points, orientedPath[1])
                           THEN Append(points, orientedPath[1]) ELSE points)
                          \o SubSeq(orientedPath, 2, Len(orientedPath)),
               distanceKm |-> edge.distanceKm,
               edge |-> edge ]

isCompleted(completed, streetId) == MapGet(completed, streetId, FALSE)

\* a chain that goes on over completed and rewarded streets alike
chainNeverStops(completed, rewarded, streetId) == FALSE

\* whether a chain may continue over a street (source lines 2535 and 2571-2574)
chainStops(completed, rewarded, streetId) ==
    isCompleted(completed, streetId) \/ streetId \in rewarded

MAX_DEPTH == 12

\* the far end of an edge walked from cur; NullNodeId when cur is no end of it
otherEnd(edge, cur) ==
    IF edge.from = cur THEN edge.to ELSE IF edge.to = cur THEN edge.from ELSE NullNodeId

\* the adjacency entries of a node other than the edge walked into it
outgoingOf(g, nodeId, incomingEdgeId) ==
    SelectSeq(adjacencyOf(g, nodeId), LAMBDA entry : entry.edgeId # incomingEdgeId)

\* the chain goes on over the single other edge of the node reached
chainContinues(g, completed, rewarded, outgoing) ==
    /\ Len(outgoing) = 1
    /\ outgoing[1].edgeId \in DOMAIN g.edges
    /\ ~chainStops(completed, rewarded, g.edges[outgoing[1].edgeId].streetId)

\* the for-loop of buildDeadEndForwardChainFromNode; [returned, forward]:
\* returned = TRUE is the "return []" inside the loop
RECURSIVE chainLoop(_, _, _, _, _, _, _)
chainLoop(g, cur, nextEdgeId, depth, forward, completed, rewarded) ==
    IF depth >= MAX_DEPTH \/ nextEdgeId \notin DOMAIN g.edges
    THEN [returned |-> FALSE, forward |-> forward]
    ELSE IF chainStops(completed, rewarded, g.edges[nextEdgeId].streetId)
    THEN [returned |-> depth = 0, forward |-> forward]
    ELSE IF otherEnd(g.edges[nextEdgeId], cur) = NullNodeId
    THEN [returned |-> FALSE, forward |-> forward]
    ELSE IF chainContinues(g, completed, rewarded,
                           outgoingOf(g, otherEnd(g.edges[nextEdgeId], cur), nextEdgeId))
    THEN chainLoop(g, otherEnd(g.edges[nextEdgeId], cur),
                   outgoingOf(g, otherEnd(g.edges[nextEdgeId], cur), nextEdgeId)[1].edgeId,
                   depth + 1,
                   Append(forward, Step(nextEdgeId, cur, otherEnd(g.edges[nextEdgeId], cur))),
                   completed, rewarded)
    ELSE [ returned |-> FALSE,
           forward |-> Append(forward,
                              Step(nextEdgeId, cur, otherEnd(g.edges[nextEdgeId], cur))) ]

\* a terminal test that takes a through node for the end of a cul-de-sac
isThroughTerminal(g, terminalNodeId) == degreeOf(g, terminalNodeId) = 2

\* whether the chain's last node makes it a dead end (source lines 2584-2588)
isDeadEndTerminal(g, terminalNodeId) == degreeOf(g, terminalNodeId) = 1

buildDeadEndForwardChainFromNode(g, anchor, firstEdgeId, completed, rewarded) ==
    LET walked == chainLoop(g, anchor, firstEdgeId, 0, << >>, completed, rewarded)
        forward == walked.forward
    IN  IF walked.returned \/ Len(forward) = 0 THEN << >>
        ELSE IF ~isDeadEndTerminal(g, forward[Len(forward)].to) THEN << >>
        ELSE forward

RECURSIVE sumEdgeKm(_, _, _)
sumEdgeKm(g, steps, i) ==
    IF i > Len(steps) THEN 0
    ELSE MapGet(g.edges, steps[i].edgeId, [distanceKm |-> 0]).distanceKm
           + sumEdgeKm(g, steps, i + 1)

\* weight * (1 - min(cap, absDiff / denom)) in score units; cap100 = cap * 100,
\* denom100 = denom (metres) * 100, weight in score units
budgetFitTerm(absDiff, cap100, denom100, weight) ==
    IF absDiff * 10000 >= cap100 * denom100
    THEN weight - (weight * cap100) \div 100
    ELSE weight - (absDiff * 100 * weight) \div denom100

\* a ceiling without the 0.35 km of slack
hardMaxWithoutSlack(normalizedTargetKm) == Max(12000, normalizedTargetKm * 11)

\* hardMaxKm in units of 0.1 m: max(1.2, t * 1.1 + 0.35)
hardMaxOf(normalizedTargetKm) == Max(12000, normalizedTargetKm * 11 + 3500)

\* the skip test of a candidate spur (source line 2635)
spurOverBudget(nextDistanceKm, currentDistanceKm, t, hardMaxKm) ==
    nextDistanceKm * 10 > hardMaxKm /\ currentDistanceKm * 100 >= t * 50

\* the body of the loop of findBestDeadEndSpurAtNode for one forward chain
spurPlanOf(g, t, currentDistanceKm, hardMaxKm, covStreets, covNodes, forward) ==
    LET oneWayDistanceKm == sumEdgeKm(g, forward, 1)
        forwardStreetIds == { g.edges[forward[i].edgeId].streetId : i \in DOMAIN forward }
        forwardNodeIds == { forward[i].from : i \in DOMAIN forward }
                            \cup { forward[i].to : i \in DOMAIN forward }
        newStreetGain == Cardinality(forwardStreetIds \ Range(covStreets))
        newNodeGain == Cardinality(forwardNodeIds \ covNodes)
        reverse == [i \in 1..Len(forward) |->
                      Step(forward[Len(forward) + 1 - i].edgeId,
                           forward[Len(forward) + 1 - i].to,
                           forward[Len(forward) + 1 - i].from)]
    IN  [ valid |-> /\ Len(forward) > 0
                    /\ ~spurOverBudget(currentDistanceKm + oneWayDistanceKm * 2,
                                       currentDistanceKm, t, hardMaxKm),
          steps |-> forward \o reverse,
          totalDistanceKm |-> oneWayDistanceKm * 2,
          score |-> ((newStreetGain * 46000 + newNodeGain * 25000
                        + Min(14000, oneWayDistanceKm * 18)) * 1000)
                       \div (oneWayDistanceKm * 2 + 70)
                    + budgetFitTerm(Abs(t - (currentDistanceKm + oneWayDistanceKm * 2)),
                                    150, Max(85000, t * 55), 11000) ]

spurCandidate(g, cur, t, currentDistanceKm, hardMaxKm, completed, rewarded, covStreets, covNodes, neighbor) ==
    spurPlanOf(g, t, currentDistanceKm, hardMaxKm, covStreets, covNodes,
               buildDeadEndForwardChainFromNode(g, cur, neighbor.edgeId, completed, rewarded))

\* [valid, steps, totalDistanceKm, score]; valid = FALSE is the null result
findBestDeadEndSpurAtNode(g, cur, t, currentDistanceKm, hardMaxKm, completed, rewarded, covStreets, covNodes) ==
    LET neighbors == adjacencyOf(g, cur)
        cands == [i \in 1..Len(neighbors) |->
                    spurCandidate(g, cur, t, currentDistanceKm, hardMaxKm, completed,
                                  rewarded, covStreets, covNodes, neighbors[i])]
        b == bestIndex(cands)
    IN  IF b = 0 THEN [valid |-> FALSE, steps |-> << >>, totalDistanceKm |-> 0, score |-> 0]
        ELSE cands[b]

-----------------------------------------------------------------------------
(* Global coverage move *)

\* an adjacency entry of the current node that is a pending local branch
isPendingBranch(g, completed, rewarded, entry) ==
    /\ entry.edgeId \in DOMAIN g.edges
    /\ ~isCompleted(completed, g.edges[entry.edgeId].streetId)
    /\ g.edges[entry.edgeId].streetId \notin rewarded
    /\ degreeOf(g, entry.neighbor) <= 2

\* the skip test of a candidate move (source line 2744)
moveOverBudget(nextDistanceKm, currentDistanceKm, t, hardMaxKm) ==
    nextDistanceKm * 10 > hardMaxKm /\ currentDistanceKm * 100 >= t * 45

RECURSIVE repeatPenaltySum(_, _, _, _)
repeatPenaltySum(g, traversed, connectorEdgeIds, i) ==
    IF i > Len(connectorEdgeIds) THEN 0
    ELSE LET id == connectorEdgeIds[i]
             repeatCount == MapGet(traversed, id, 0)
         IN  (IF id \in DOMAIN g.edges /\ repeatCount > 0
              THEN g.edges[id].distanceKm * Min(24, repeatCount * 10) ELSE 0)
             + repeatPenaltySum(g, traversed, connectorEdgeIds, i + 1)

moveCandidate(g, cur, t, currentDistanceKm, hardMaxKm, fromCurrent, completed, rewarded, covStreets, covNodes, traversed, pendingBranchEdgeIds, edge) ==
    LET toFrom == MapGet(fromCurrent.dist, edge.from, POSITIVE_INFINITY)
        toTo == MapGet(fromCurrent.dist, edge.to, POSITIVE_INFINITY)
        reachable == toFrom # POSITIVE_INFINITY \/ toTo # POSITIVE_INFINITY
        approachFrom == toFrom <= toTo
        connectorNode == IF approachFrom THEN edge.from ELSE edge.to
        connectorDistanceKm == IF approachFrom THEN toFrom ELSE toTo
        target == IF approachFrom THEN Step(edge.id, edge.from, edge.to)
                  ELSE Step(edge.id, edge.to, edge.from)
        additionalDistanceKm == IF reachable THEN connectorDistanceKm + edge.distanceKm ELSE 0
        nextDistanceKm == currentDistanceKm + additionalDistanceKm
        connectorEdgeIds == reconstructPathEdges(fromCurrent, cur, connectorNode)
        oriented == orientPathEdges(g, cur, connectorEdgeIds)
        connectorRepeatPenalty == repeatPenaltySum(g, traversed, connectorEdgeIds, 1)
        firstTravelEdgeId == IF Len(oriented.steps) > 0 THEN oriented.steps[1].edgeId
                             ELSE target.edgeId
        skipNearbyBranchPenalty ==
            IF /\ Cardinality(pendingBranchEdgeIds) > 0
               /\ firstTravelEdgeId \notin pendingBranchEdgeIds
               /\ currentDistanceKm * 100 <= t * 95
            THEN Min(36000, Cardinality(pendingBranchEdgeIds) * 11800) ELSE 0
        remainingKm == Max(0, t - currentDistanceKm)
        newStreetGain == IF edge.streetId \in Range(covStreets) THEN 0 ELSE 1
        newNodeGain == (IF target.from \in covNodes THEN 0 ELSE 1)
                         + (IF target.to \in covNodes THEN 0 ELSE 1)
        fromDegree == degreeOf(g, edge.from)
        toDegree == degreeOf(g, edge.to)
        leafBonus == IF fromDegree = 1 \/ toDegree = 1 THEN 17500 ELSE 0
        branchTailBonus == IF fromDegree <= 2 \/ toDegree <= 2 THEN 3500 ELSE 0
        proximityBonus == Max(0, 1350 - connectorDistanceKm) * 7
        usefulDistanceBonus == Min(15000, (edge.distanceKm * 27) \div 2)
        budgetFit == budgetFitTerm(Abs(remainingKm - additionalDistanceKm), 140,
                                   Max(70000, t * 50), 14500)
        overshootPenalty == IF nextDistanceKm * 100 > t * 108
                            THEN ((nextDistanceKm * 100 - t * 108) * 19) \div 100 ELSE 0
    IN  [ valid |-> /\ ~isCompleted(completed, edge.streetId)
                    /\ edge.streetId \notin rewarded
                    /\ reachable
                    /\ ~moveOverBudget(nextDistanceKm, currentDistanceKm, t, hardMaxKm)
                    /\ oriented.ok,
          connectorSteps |-> oriented.steps,
          targetStep |-> target,
          additionalDistanceKm |-> additionalDistanceKm,
          score |-> IF ~reachable THEN 0
                    ELSE ((newStreetGain * 38000 + newNodeGain * 20000 + leafBonus
                             + branchTailBonus + proximityBonus + usefulDistanceBonus) * 1000)
                           \div (additionalDistanceKm + 80)
                         + budgetFit
                         - overshootPenalty
                         - (connectorRepeatPenalty * 21) \div 10
                         - skipNearbyBranchPenalty ]

\* [valid, connectorSteps, targetStep, additionalDistanceKm, score]
coverageMoveCandidates(g, cur, t, currentDistanceKm, hardMaxKm, cache, completed, rewarded, covStreets, covNodes, traversed) ==
    LET fromCurrent == getDijkstraCached(cache, g, cur)
        adj == adjacencyOf(g, cur)
        pendingBranchEdgeIds ==
            { adj[i].edgeId : i \in { k \in DOMAIN adj :
                                        isPendingBranch(g, completed, rewarded, adj[k]) } }
    IN  [i \in 1..Len(g.edgeOrder) |->
            moveCandidate(g, cur, t, currentDistanceKm, hardMaxKm, fromCurrent,
                          completed, rewarded, covStreets, covNodes, traversed,
                          pendingBranchEdgeIds, g.edges[g.edgeOrder[i]])]

findBestCoverageMove(g, cur, t, currentDistanceKm, hardMaxKm, cache, completed, rewarded, covStreets, covNodes, traversed) ==
    LET cands == coverageMoveCandidates(g, cur, t, currentDistanceKm, hardMaxKm, cache,
                                        completed, rewarded, covStreets, covNodes, traversed)
        b == bestIndex(cands)
    IN  IF b = 0
        THEN [ valid |-> FALSE, connectorSteps |-> << >>, targetStep |-> NoStep,
               additionalDistanceKm |-> 0, score |-> 0 ]
        ELSE cands[b]

-----------------------------------------------------------------------------
(* Immediate branch step and local extension *)

\* the skip test of a branch step (source line 2865)
branchOverBudget(nextDistanceKm, currentDistanceKm, t, hardMaxKm) ==
    nextDistanceKm * 10 > hardMaxKm /\ currentDistanceKm * 100 >= t * 52

\* a branch step that takes any edge of the node
isBranchUnconditional(g, completed, traversed, rewarded, neighbor, edge) == TRUE

\* the eligibility tests of a branch step (source lines 2844-2862)
isBranchEligible(g, completed, traversed, rewarded, neighbor, edge) ==
    /\ ~isCompleted(completed, edge.streetId)
    /\ edge.streetId \notin rewarded
    /\ MapGet(traversed, edge.id, 0) = 0
    /\ degreeOf(g, neighbor.neighbor) <= 2
    /\ edge.distanceKm <= 1200

branchCandidate(g, cur, t, currentDistanceKm, hardMaxKm, completed, traversed, rewarded, covNodes, currentDegree, neighbor) ==
    IF neighbor.edgeId \notin DOMAIN g.edges
    THEN [valid |-> FALSE, step |-> NoStep, score |-> 0]
    ELSE
    LET edge == g.edges[neighbor.edgeId]
        neighborDegree == degreeOf(g, neighbor.neighbor)
        nextDistanceKm == currentDistanceKm + edge.distanceKm
        nodeGain == IF neighbor.neighbor \in covNodes THEN 0 ELSE 1
        culdesacBonus == IF neighborDegree = 1 THEN 40000 ELSE 22500
        branchExitBonus == IF currentDegree >= 3 THEN 14500 ELSE 3500
        shortEdgeBonus == (Max(0, 950 - edge.distanceKm) * 25) \div 2
        budgetFit == budgetFitTerm(Abs(t - nextDistanceKm), 125, Max(80000, t * 55), 10000)
    IN  [ valid |-> /\ isBranchEligible(g, completed, traversed, rewarded, neighbor, edge)
                    /\ ~branchOverBudget(nextDistanceKm, currentDistanceKm, t, hardMaxKm),
          step |-> Step(edge.id, cur, neighbor.neighbor),
          score |-> culdesacBonus + branchExitBonus + shortEdgeBonus
                      + nodeGain * 12000 + budgetFit ]

\* [valid, step, score]; valid = FALSE is the null result
findBestImmediateBranchStep(g, cur, t, currentDistanceKm, hardMaxKm, completed, traversed, rewarded, covNodes) ==
    LET neighbors == adjacencyOf(g, cur)
        cands == [i \in 1..Len(neighbors) |->
                    branchCandidate(g, cur, t, currentDistanceKm, hardMaxKm, completed,
                                    traversed, rewarded, covNodes, Len(neighbors),
                                    neighbors[i])]
        b == bestIndex(cands)
    IN  IF b = 0 THEN [valid |-> FALSE, step |-> NoStep, score |-> 0] ELSE cands[b]

\* a local extension that never looks at the budget
localNeverOverBudget(nextDistanceKm, currentDistanceKm, t, hardMaxKm) == FALSE

\* the skip test of a local extension (source line 2917)
localOverBudget(nextDistanceKm, currentDistanceKm, t, hardMaxKm) ==
    nextDistanceKm * 10 > hardMaxKm /\ currentDistanceKm * 100 >= t * 55

localCandidate(g, cur, t, currentDistanceKm, hardMaxKm, completed, traversed, rewarded, covNodes, neighbor) ==
    IF neighbor.edgeId \notin DOMAIN g.edges
    THEN [valid |-> FALSE, step |-> NoStep, score |-> 0]
    ELSE
    LET edge == g.edges[neighbor.edgeId]
        nextDistanceKm == currentDistanceKm + edge.distanceKm
        repeatCount == MapGet(traversed, edge.id, 0)
        done == isCompleted(completed, edge.streetId)
        isNewReward == ~done /\ edge.streetId \notin rewarded
        nodeGain == IF neighbor.neighbor \in covNodes THEN 0 ELSE 1
        neighborDegree == degreeOf(g, neighbor.neighbor)
        culdesacBonus == IF neighborDegree = 1 THEN 31000
                         ELSE IF neighborDegree = 2 THEN 8000 ELSE 0
    IN  [ valid |-> ~localOverBudget(nextDistanceKm, currentDistanceKm, t, hardMaxKm),
          step |-> Step(edge.id, cur, neighbor.neighbor),
          score |-> (IF isNewReward THEN 27000 ELSE 5500)
                      + nodeGain * 10000
                      + culdesacBonus
                      - repeatCount * 9200
                      - (IF done THEN 3000 ELSE 0)
                      - (Abs(t - nextDistanceKm) * 12) \div 10 ]

findBestLocalExtension(g, cur, t, currentDistanceKm, hardMaxKm, completed, traversed, rewarded, covNodes) ==
    LET neighbors == adjacencyOf(g, cur)
        cands == [i \in 1..Len(neighbors) |->
                    localCandidate(g, cur, t, currentDistanceKm, hardMaxKm, completed,
                                   traversed, rewarded, covNodes, neighbors[i])]
        b == bestIndex(cands)
    IN  IF b = 0 THEN [valid |-> FALSE, step |-> NoStep, score |-> 0] ELSE cands[b]

-----------------------------------------------------------------------------
(* Node coverage accounting *)

\* a capture test that uses the 18 m of the route join instead of 6.096 m
withinJoinDistance(distance) == distance <= JOIN_KM * JOIN_KM

\* distance <= NODE_CAPTURE_RADIUS_METERS, on the squared distance in metres^2
withinCaptureRadius(distance) ==
    distance <= (NODE_CAPTURE_RADIUS_METERS * NODE_CAPTURE_RADIUS_METERS) \div 1000000

coveredNodeIdsForPath(points, nodes) ==
    LET covered == SelectSeq(nodes, LAMBDA node :
                       withinCaptureRadius(distancePointToPathMeters(node.point, points)))
    IN  [i \in 1..Len(covered) |-> covered[i].id]

-----------------------------------------------------------------------------
(* Planning requests of the model *)

MaxStreets == 3

Street(id, name, path, startId, endId, source) ==
    [ id |-> id, name |-> name, path |-> path, startNodeId |-> startId,
      endNodeId |-> endId, completed |-> FALSE, source |-> source ]

\* A (0,0), B 500 m east of A, C 200 m north of B, K 999 m north of A,
\* N 5 m north of the middle of A-B, Z a second node at A's position.
Catalogue ==
    << Street("ab", "Main St", << Pt(0, 0), Pt(0, 250), Pt(0, 500) >>,
              OsmNode(1), OsmNode(2), "osm"),
       Street("bc2", "Loop Rd", << Pt(0, 500), Pt(0, 520), Pt(200, 520), Pt(200, 500) >>,
              OsmNode(2), OsmNode(3), "osm"),
       Street("bc", "Spur Ct", << Pt(0, 500), Pt(200, 500) >>,
              OsmNode(2), OsmNode(3), "osm"),
       Street("km", "Long Ave", << Pt(0, 0), Pt(999, 0) >>,
              OsmNode(1), OsmNode(4), "osm"),
       Street("near", "Near Ln", << Pt(5, 250), Pt(105, 250) >>,
              OsmNode(5), OsmNode(6), "osm"),
       Street("loop", "Circle Dr",
              << Pt(200, 500), Pt(300, 500), Pt(300, 600), Pt(200, 600), Pt(200, 500) >>,
              OsmNode(3), OsmNode(3), "osm"),
       Street("zero", "Stub", << Pt(0, 0), Pt(0, 0) >>,
              OsmNode(1), OsmNode(7), "osm"),
       Street("man", "Side St", << Pt(0, 507), Pt(0, 800) >>,
              NoNodeId, NoNodeId, "manual"),
       Street("pt", "Dot", << Pt(0, 0) >>,
              OsmNode(1), OsmNode(1), "osm") >>

Null == [isNull |-> TRUE]

\* (home, targetKm, cityBounds) of the requests
Requests ==
    { [home |-> Pt(0, 0), targetKm |-> 0, cityBounds |-> Null],
      [home |-> Pt(0, 0), targetKm |-> 1500, cityBounds |-> Null],
      [home |-> Pt(0, 0), targetKm |-> 1609, cityBounds |-> Null],
      [home |-> Pt(190, 500), targetKm |-> 1500, cityBounds |-> Null],
      [home |-> Pt(0, 0), targetKm |-> 1500,
       cityBounds |-> [isNull |-> FALSE, south |-> 0, north |-> 300,
                       west |-> 400, east |-> 700]] }

RECURSIVE pickStreets(_, _, _)
pickStreets(chosen, done, i) ==
    IF i > Len(Catalogue) THEN << >>
    ELSE IF i \in chosen
         THEN << [Catalogue[i] EXCEPT !.completed = (i \in done)] >>
                \o pickStreets(chosen, done, i + 1)
    ELSE pickStreets(chosen, done, i + 1)

-----------------------------------------------------------------------------
(* The dataset functions run outside a planning request: while the planner   *)
(* runs, their variables rest.                                               *)

\* no street name has been passed yet
NoName == << "undefined" >>

nameVars == << streetName, normalizedOnce, normalizedTwice >>
nameIdle == streetName = NoName /\ normalizedOnce = NoName /\ normalizedTwice = NoName

\* a call that has not returned, and one that returned a value
NotReturned == [returned |-> FALSE, value |-> << >>]
Returned(v) == [returned |-> TRUE, value |-> v]

dedupeVars == << segments, deduped >>
dedupeIdle == segments = << >> /\ deduped = NotReturned

\* an Overpass payload without elements
EmptyPayload == [elements |-> << >>]

parseVars == << payload, parsed >>
parseIdle == payload = EmptyPayload /\ parsed = NotReturned

\* the city has not been resolved
NoGeo == [bounds |-> [isNull |-> TRUE], boundary |-> [isNull |-> TRUE]]

limitsVars == << limitsInput, cityLimits, polygonFiltered, constrained >>
limitsIdle == limitsInput = << >> /\ cityLimits = NoGeo /\ polygonFiltered = NotReturned /\ constrained = NotReturned

\* no load has ended
LoadPending == [status |-> "pending"]

loadVars == << city, loadPc, variantIndex, areaResults, nominatimGeo, bboxStreets,
    aroundStreets, endpointIndex, failures, contacts, callOutcome, anyOverpassOk,
    nominatimLog, loadResult >>
loadIdle ==
    /\ city = << >>
    /\ loadPc = "idle"
    /\ variantIndex = 0
    /\ areaResults = << >>
    /\ nominatimGeo = NoGeo
    /\ bboxStreets = << >>
    /\ aroundStreets = << >>
    /\ endpointIndex = 0
    /\ failures = << >>
    /\ contacts = << >>
    /\ callOutcome = "none"
    /\ anyOverpassOk = FALSE
    /\ nominatimLog = << >>
    /\ loadResult = LoadPending

\* the page before any street data is loaded; positions are metres from DEFAULT_HOME
DEFAULT_HOME == Pt(0, 0)
DEFAULT_PLANNER == [streets |-> << >>, home |-> DEFAULT_HOME, cityBounds |-> Null]
NoMessage == [tone |-> "none", text |-> ""]
NoPending == [handler |-> "none", streets |-> << >>]
NoEvent == [handler |-> "none", outcome |-> "none", before |-> << >>]

appVars == << planner, suggestions, activeRouteId, message, loadingCity, pending,
    lastEvent >>
appIdle ==
    /\ planner = DEFAULT_PLANNER
    /\ suggestions = << >>
    /\ activeRouteId = "null"
    /\ message = NoMessage
    /\ loadingCity = FALSE
    /\ pending = NoPending
    /\ lastEvent = NoEvent

\* a route without points
NoRoute == [points |-> << >>, distanceKm |-> 0]

gpxVars == << gpxRoute, gpxText, reparsed >>
gpxIdle == gpxRoute = NoRoute /\ gpxText = NotReturned /\ reparsed = NotReturned

\* a Map from edge id to count without entries; order is the insertion order
EmptyMultiset == [order |-> << >>, count |-> EmptyMap]

eulerVars == << eulerGraph, selectedEdgeIds, eulerStart, eulerPc, multiset, oddNodes,
    eulerCache, tokens, tokenAdjacency, used, tokenCursor, stack, reversed, traversal >>
eulerIdle ==
    /\ eulerGraph = EmptyGraph
    /\ selectedEdgeIds = << >>
    /\ eulerStart = NullNodeId
    /\ eulerPc = "idle"
    /\ multiset = EmptyMultiset
    /\ oddNodes = << >>
    /\ eulerCache = EmptyMap
    /\ tokens = << >>
    /\ tokenAdjacency = EmptyMap
    /\ used = << >>
    /\ tokenCursor = EmptyMap
    /\ stack = << >>
    /\ reversed = << >>
    /\ traversal = NotReturned

ingestVars == << nameVars, dedupeVars, parseVars, limitsVars, loadVars, appVars, gpxVars, eulerVars >>
ingestIdle == nameIdle /\ dedupeIdle /\ parseIdle /\ limitsIdle /\ loadIdle /\ appIdle /\ gpxIdle /\ eulerIdle

\* what a call of one dataset function leaves alone
restOfName == << dedupeVars, parseVars, limitsVars, loadVars, appVars, gpxVars, eulerVars >>
restIdleOfName == dedupeIdle /\ parseIdle /\ limitsIdle /\ loadIdle /\ appIdle /\ gpxIdle /\ eulerIdle
restOfDedupe == << nameVars, parseVars, limitsVars, loadVars, appVars, gpxVars, eulerVars >>
restIdleOfDedupe == nameIdle /\ parseIdle /\ limitsIdle /\ loadIdle /\ appIdle /\ gpxIdle /\ eulerIdle
restOfParse == << nameVars, dedupeVars, limitsVars, loadVars, appVars, gpxVars, eulerVars >>
restIdleOfParse == nameIdle /\ dedupeIdle /\ limitsIdle /\ loadIdle /\ appIdle /\ gpxIdle /\ eulerIdle
restOfLimits == << nameVars, dedupeVars, parseVars, loadVars, appVars, gpxVars, eulerVars >>
restIdleOfLimits == nameIdle /\ dedupeIdle /\ parseIdle /\ loadIdle /\ appIdle /\ gpxIdle /\ eulerIdle
restOfLoad == << nameVars, dedupeVars, parseVars, limitsVars, appVars, gpxVars, eulerVars >>
restIdleOfLoad == nameIdle /\ dedupeIdle /\ parseIdle /\ limitsIdle /\ appIdle /\ gpxIdle /\ eulerIdle
restOfApp == << nameVars, dedupeVars, parseVars, limitsVars, loadVars, gpxVars, eulerVars >>
restIdleOfApp == nameIdle /\ dedupeIdle /\ parseIdle /\ limitsIdle /\ loadIdle /\ gpxIdle /\ eulerIdle
restOfGpx == << nameVars, dedupeVars, parseVars, limitsVars, loadVars, appVars, eulerVars >>
restIdleOfGpx == nameIdle /\ dedupeIdle /\ parseIdle /\ limitsIdle /\ loadIdle /\ appIdle /\ eulerIdle
restOfEuler == << nameVars, dedupeVars, parseVars, limitsVars, loadVars, appVars, gpxVars >>
restIdleOfEuler == nameIdle /\ dedupeIdle /\ parseIdle /\ limitsIdle /\ loadIdle /\ appIdle /\ gpxIdle

-----------------------------------------------------------------------------
(* buildEfficientCoverageRoute as a step machine *)

inputVars == << streets, home, targetKm, cityBounds >>
planVars == << graph, startNodeId, completedByStreetId >>
cacheVars == << dijkstraCache, dijkstraRuns >>
walkVars == << routePoints, coveredStreetIds, coveredStreetNames, rewardedStreetIds,
               coveredNodes, traversedEdgeCount, currentNodeId, distanceKm, lastApplied,
               moveStartKm >>
spurVars == << spurCaller, maxSweeps, spurSweeps, spurSteps, anchorNodeId >>
branchVars == << maxSteps, stepCount >>
moveVars == << connectorSteps, targetStep >>

normalizedTargetKm == Max(800, targetKm)
hardMaxKm == hardMaxOf(normalizedTargetKm)
maxIterationsOf(t) == Max(140, RoundDiv(t * 95, 1000))
maxIterations == maxIterationsOf(normalizedTargetKm)

NoApplied == [step |-> NoStep, at |-> NullNodeId, kind |-> "none", before |-> 0, jump |-> FALSE]

\* The street lists of the model: up to MaxStreets streets of the catalogue in
\* catalogue order, any of them completed.  The zero-length street, on which a
\* walk makes no progress, is combined with at most one other street.
Selections ==
    { chosen \in SUBSET (1..Len(Catalogue)) :
        /\ Cardinality(chosen) <= MaxStreets
        /\ (\E i \in chosen : Catalogue[i].id = "zero") => Cardinality(chosen) <= 2 }

Init ==
    /\ \E chosen \in Selections :
         \E done \in SUBSET chosen : streets = pickStreets(chosen, done, 1)
    /\ \E r \in Requests :
         /\ home = r.home
         /\ targetKm = r.targetKm
         /\ cityBounds = r.cityBounds
    /\ pc = "start"
    /\ graph = EmptyGraph
    /\ startNodeId = NullNodeId
    /\ completedByStreetId = EmptyMap
    /\ dijkstraCache = EmptyMap
    /\ dijkstraRuns = 0
    /\ routePoints = << >>
    /\ coveredStreetIds = << >>
    /\ coveredStreetNames = << >>
    /\ rewardedStreetIds = {}
    /\ coveredNodes = {}
    /\ traversedEdgeCount = EmptyMap
    /\ currentNodeId = NullNodeId
    /\ distanceKm = 0
    /\ iterations = 0
    /\ mainSite = "head"
    /\ spurCaller = "main"
    /\ maxSweeps = 0
    /\ spurSweeps = 0
    /\ spurSteps = << >>
    /\ anchorNodeId = NullNodeId
    /\ maxSteps = 0
    /\ stepCount = 0
    /\ connectorSteps = << >>
    /\ targetStep = NoStep
    /\ lastApplied = NoApplied
    /\ moveStartKm = 0
    /\ result = Null
    /\ ingestIdle

\* new Map(candidates.map(street => [street.id, street.completed])): the last
\* entry of an id wins
RECURSIVE completedMapFrom(_, _)
completedMapFrom(candidates, i) ==
    IF i = 0 THEN EmptyMap
    ELSE (candidates[i].id :> candidates[i].completed)
           @@ completedMapFrom(candidates, i - 1)

candidatesOf(input, homePoint, t, bounds) ==
    selectCandidateStreets(
        IF bounds.isNull THEN input ELSE filterStreetsToCityBounds(input, bounds),
        homePoint, Max(800, t))

\* a test that only looks for an empty candidate list
nothingToPlan(candidates) == Len(candidates) = 0

\* the test that ends the request when nothing is left to cover (source line 2981)
nothingUnfinished(candidates) ==
    Cardinality({ i \in DOMAIN candidates : ~candidates[i].completed }) = 0

\* source lines 2958-2997: the steps before the main loop
Start ==
    /\ pc = "start"
    /\ LET candidates == candidatesOf(streets, home, targetKm, cityBounds)
           g == buildStreetGraph(candidates)
           start == findNearestNodeId(g, home)
       IN  IF \/ Len(candidates) = 0
              \/ Len(g.edgeOrder) = 0 \/ Len(g.nodeOrder) = 0
              \/ start = NullNodeId
              \/ nothingUnfinished(candidates)
           THEN /\ pc' = "done"
                /\ result' = Null
                /\ UNCHANGED << planVars, coveredNodes, currentNodeId >>
           ELSE /\ pc' = "loop"
                /\ graph' = g
                /\ startNodeId' = start
                /\ completedByStreetId' = completedMapFrom(candidates, Len(candidates))
                /\ coveredNodes' = { start }
                /\ currentNodeId' = start
                /\ UNCHANGED result
    /\ UNCHANGED << ingestVars, inputVars, cacheVars, routePoints, coveredStreetIds, coveredStreetNames,
                    rewardedStreetIds, traversedEdgeCount, distanceKm, lastApplied,
                    moveStartKm, iterations, mainSite, spurVars, branchVars, moveVars >>

\* a loop test that admits one pass too many
loopContinuesInclusive(d, n, hardMax, maxIter) == d * 10 < hardMax /\ n <= maxIter

\* the condition of the main while-loop (source line 3100)
loopContinues(d, n, hardMax, maxIter) == d * 10 < hardMax /\ n < maxIter

\* runDeadEndSpurSweeps(n) called from the loop body
CallSpurSweeps(n, caller) ==
    /\ pc' = "spur"
    /\ maxSweeps' = n
    /\ spurSweeps' = 0
    /\ spurCaller' = caller
    /\ UNCHANGED << spurSteps, anchorNodeId >>

LoopHead ==
    /\ pc = "loop"
    /\ IF loopContinues(distanceKm, iterations, hardMaxKm, maxIterations)
       THEN /\ iterations' = iterations + 1
            /\ mainSite' = "head"
            /\ CallSpurSweeps(5, "main")
       ELSE /\ pc' = "finish"
            /\ UNCHANGED << iterations, mainSite, spurVars >>
    /\ UNCHANGED << ingestVars, inputVars, planVars, cacheVars, walkVars, branchVars, moveVars, result >>

\* applyTraversalStep with the caller's "distanceKm += ...; currentNodeId = ..."
\* (the step's edge exists and has a path: appendRouteStep succeeds)
ApplyStep(step, kind) ==
    LET append == appendRouteStep(graph, step, routePoints)
    IN  /\ routePoints' = append.points
        /\ coveredStreetIds' = SetAdd(coveredStreetIds, append.edge.streetId)
        /\ coveredStreetNames' = SetAdd(coveredStreetNames, append.edge.streetName)
        /\ coveredNodes' = coveredNodes \cup { step.from, step.to }
        /\ traversedEdgeCount' =
             (append.edge.id :> (MapGet(traversedEdgeCount, append.edge.id, 0) + 1))
               @@ traversedEdgeCount
        /\ rewardedStreetIds' =
             IF ~isCompleted(completedByStreetId, append.edge.streetId)
             THEN rewardedStreetIds \cup { append.edge.streetId }
             ELSE rewardedStreetIds
        /\ distanceKm' = distanceKm + append.distanceKm
        /\ currentNodeId' = step.to
        /\ moveStartKm' = IF kind = "spur" THEN moveStartKm ELSE distanceKm
        /\ lastApplied' = [ step |-> step, at |-> currentNodeId, kind |-> kind,
                            before |-> distanceKm,
                            jump |-> Len(routePoints) > 0
                                     /\ Len(append.points) - Len(routePoints)
                                          = Len(append.edge.path) ]

stepApplies(step) == appendRouteStep(graph, step, routePoints).ok

\* the test that ends a sweep before an affordable spur is walked
\* (source lines 3017-3022)
spurTooLong(d, total, t, hardMax) == (d + total) * 10 > hardMax /\ d * 100 >= t * 48

\* runDeadEndSpurSweeps: the head of one pass of its while-loop, up to the
\* choice of the spur (source lines 3001-3022)
SpurSweep ==
    /\ pc = "spur"
    /\ LET spur == findBestDeadEndSpurAtNode(graph, currentNodeId, normalizedTargetKm,
                       distanceKm, hardMaxKm, completedByStreetId, rewardedStreetIds,
                       coveredStreetIds, coveredNodes)
       IN  IF /\ spurSweeps < maxSweeps
              /\ distanceKm * 10 < hardMaxKm
              /\ spur.valid
              /\ ~spurTooLong(distanceKm, spur.totalDistanceKm, normalizedTargetKm, hardMaxKm)
           THEN /\ anchorNodeId' = currentNodeId
                /\ spurSteps' = spur.steps
                /\ moveStartKm' = distanceKm
                /\ pc' = "spurWalk"
           ELSE /\ pc' = "spurDone"
                /\ UNCHANGED << anchorNodeId, spurSteps, moveStartKm >>
    /\ UNCHANGED << ingestVars, inputVars, planVars, cacheVars, routePoints, coveredStreetIds,
                    coveredStreetNames, rewardedStreetIds, coveredNodes, traversedEdgeCount,
                    currentNodeId, distanceKm, lastApplied, iterations, mainSite,
                    spurCaller, maxSweeps, spurSweeps, branchVars, moveVars, result >>

\* the tests after a walked spur (source lines 3045-3052)
spurSweepEnds(d, t, hardMax) == d * 10 >= hardMax \/ d * 100 >= t * 102

\* one pass of the for-loop over spur.steps (source lines 3025-3043), with the
\* code after the loop when the last step has been applied
SpurStep ==
    /\ pc = "spurWalk"
    /\ spurSteps # << >>
    /\ IF stepApplies(Head(spurSteps))
       THEN /\ ApplyStep(Head(spurSteps), "spur")
            /\ spurSteps' = Tail(spurSteps)
            /\ IF Tail(spurSteps) # << >>
               THEN /\ pc' = "spurWalk"
                    /\ UNCHANGED spurSweeps
               ELSE IF Head(spurSteps).to # anchorNodeId
               THEN /\ pc' = "spurDone"
                    /\ UNCHANGED spurSweeps
               ELSE /\ spurSweeps' = spurSweeps + 1
                    /\ pc' = IF spurSweepEnds(distanceKm', normalizedTargetKm, hardMaxKm)
                             THEN "spurDone" ELSE "spur"
       ELSE /\ pc' = "spurDone"
            /\ UNCHANGED << walkVars, spurSteps, spurSweeps >>
    /\ UNCHANGED << ingestVars, inputVars, planVars, cacheVars, iterations, mainSite, spurCaller,
                    maxSweeps, anchorNodeId, branchVars, moveVars, result >>

\* the tests after the spur sweeps of a branch step (source lines 3094-3096)
branchSweepEnds(d, t, hardMax) == d * 10 >= hardMax \/ d * 100 >= t * 103

\* the step limit of the branch sweep that follows the spur sweeps of the loop body
branchLimit(site) == IF site = "head" THEN 6 ELSE 2

\* return of runDeadEndSpurSweeps to its caller
SpurReturn ==
    /\ pc = "spurDone"
    /\ IF spurCaller = "main"
       THEN /\ pc' = "branch"
            /\ maxSteps' = branchLimit(mainSite)
            /\ stepCount' = 0
       ELSE /\ pc' = IF branchSweepEnds(distanceKm, normalizedTargetKm, hardMaxKm)
                     THEN "branchDone" ELSE "branch"
            /\ UNCHANGED branchVars
    /\ UNCHANGED << ingestVars, inputVars, planVars, cacheVars, walkVars, iterations, mainSite,
                    spurVars, moveVars, result >>

\* runImmediateBranchSweep: one pass of its while-loop up to the call of
\* runDeadEndSpurSweeps(2) (source lines 3058-3093)
BranchSweep ==
    /\ pc = "branch"
    /\ LET branch == findBestImmediateBranchStep(graph, currentNodeId, normalizedTargetKm,
                         distanceKm, hardMaxKm, completedByStreetId, traversedEdgeCount,
                         rewardedStreetIds, coveredNodes)
       IN  IF /\ stepCount < maxSteps
              /\ distanceKm * 10 < hardMaxKm
              /\ branch.valid
              /\ stepApplies(branch.step)
           THEN /\ ApplyStep(branch.step, "branch")
                /\ stepCount' = stepCount + 1
                /\ CallSpurSweeps(2, "branch")
                /\ UNCHANGED maxSteps
           ELSE /\ pc' = "branchDone"
                /\ UNCHANGED << walkVars, spurVars, branchVars >>
    /\ UNCHANGED << ingestVars, inputVars, planVars, cacheVars, iterations, mainSite, moveVars, result >>

\* the test after the sweeps of a connector step (source lines 3198-3200)
connectorWalkEnds(d, t, hardMax) == d * 10 >= hardMax \/ d * 100 >= t * 104

\* the test after the sweeps of the target step (source lines 3237-3239)
planSatisfied(d, t, rewarded) == d * 100 >= t * 103 /\ Cardinality(rewarded) > 0

\* return of runImmediateBranchSweep to the loop body
BranchReturn ==
    /\ pc = "branchDone"
    /\ IF mainSite = "head"
       THEN /\ pc' = "move"
            /\ UNCHANGED connectorSteps
       ELSE IF mainSite = "conn"
       THEN IF connectorWalkEnds(distanceKm, normalizedTargetKm, hardMaxKm)
            THEN /\ pc' = "target"
                 /\ connectorSteps' = << >>
            ELSE /\ pc' = IF connectorSteps = << >> THEN "target" ELSE "conn"
                 /\ UNCHANGED connectorSteps
       ELSE /\ pc' = IF planSatisfied(distanceKm, normalizedTargetKm, rewardedStreetIds)
                     THEN "finish" ELSE "loop"
            /\ UNCHANGED connectorSteps
    /\ UNCHANGED << ingestVars, inputVars, planVars, cacheVars, walkVars, iterations, mainSite,
                    spurVars, branchVars, targetStep, result >>

\* source lines 3106-3124: the global coverage move of the iteration
ChooseMove ==
    /\ pc = "move"
    /\ IF distanceKm * 10 >= hardMaxKm
       THEN /\ pc' = "finish"
            /\ UNCHANGED << cacheVars, moveVars >>
       ELSE LET move == findBestCoverageMove(graph, currentNodeId, normalizedTargetKm,
                            distanceKm, hardMaxKm, dijkstraCache, completedByStreetId,
                            rewardedStreetIds, coveredStreetIds, coveredNodes,
                            traversedEdgeCount)
            IN  /\ dijkstraCache' = cacheAfter(dijkstraCache, graph, currentNodeId)
                /\ dijkstraRuns' = IF currentNodeId \in DOMAIN dijkstraCache
                                   THEN dijkstraRuns ELSE dijkstraRuns + 1
                /\ IF move.valid
                   THEN /\ connectorSteps' = move.connectorSteps
                        /\ targetStep' = move.targetStep
                        /\ pc' = IF move.connectorSteps = << >> THEN "target" ELSE "conn"
                   ELSE /\ pc' = "local"
                        /\ UNCHANGED moveVars
    /\ UNCHANGED << ingestVars, inputVars, planVars, walkVars, iterations, mainSite, spurVars,
                    branchVars, result >>

\* a plan that is never long enough to end without a move
neverEnoughWithoutMove(d, t, rewarded) == FALSE

\* the test that ends the plan when no move is left (source line 3125)
enoughWithoutMove(d, t, rewarded) == d * 100 >= t * 72 /\ Cardinality(rewarded) > 0

\* source lines 3124-3161: no global move, try a local extension
LocalExtension ==
    /\ pc = "local"
    /\ LET localStep == findBestLocalExtension(graph, currentNodeId, normalizedTargetKm,
                            distanceKm, hardMaxKm, completedByStreetId, traversedEdgeCount,
                            rewardedStreetIds, coveredNodes)
       IN  IF /\ ~enoughWithoutMove(distanceKm, normalizedTargetKm, rewardedStreetIds)
              /\ localStep.valid
              /\ stepApplies(localStep.step)
           THEN /\ ApplyStep(localStep.step, "local")
                /\ pc' = "loop"
           ELSE /\ pc' = "finish"
                /\ UNCHANGED walkVars
    /\ UNCHANGED << ingestVars, inputVars, planVars, cacheVars, iterations, mainSite, spurVars,
                    branchVars, moveVars, result >>

\* the test that stops the walk before a connector or target step
\* (source lines 3170-3173 and 3210-3213)
stepOverBudget(d, edgeKm, t, hardMax) == (d + edgeKm) * 10 > hardMax /\ d * 100 >= t * 55

\* one pass of the for-loop over move.connectorSteps up to its sweeps
\* (source lines 3164-3197)
ConnectorStep ==
    /\ pc = "conn"
    /\ connectorSteps # << >>
    /\ LET step == Head(connectorSteps)
       IN  IF /\ step.edgeId \in DOMAIN graph.edges
              /\ ~stepOverBudget(distanceKm, graph.edges[step.edgeId].distanceKm,
                                 normalizedTargetKm, hardMaxKm)
              /\ stepApplies(step)
           THEN /\ ApplyStep(step, "connector")
                /\ connectorSteps' = Tail(connectorSteps)
                /\ mainSite' = "conn"
                /\ CallSpurSweeps(3, "main")
           ELSE /\ pc' = "finish"
                /\ UNCHANGED << walkVars, connectorSteps, mainSite, spurVars >>
    /\ UNCHANGED << ingestVars, inputVars, planVars, cacheVars, iterations, branchVars, targetStep,
                    result >>

\* source lines 3206-3234: the target step up to its sweeps
TargetStep ==
    /\ pc = "target"
    /\ IF /\ targetStep.edgeId \in DOMAIN graph.edges
          /\ ~stepOverBudget(distanceKm, graph.edges[targetStep.edgeId].distanceKm,
                             normalizedTargetKm, hardMaxKm)
          /\ stepApplies(targetStep)
       THEN /\ ApplyStep(targetStep, "target")
            /\ mainSite' = "target"
            /\ CallSpurSweeps(3, "main")
       ELSE /\ pc' = "finish"
            /\ UNCHANGED << walkVars, mainSite, spurVars >>
    /\ UNCHANGED << ingestVars, inputVars, planVars, cacheVars, iterations, branchVars, moveVars,
                    result >>

\* whether the walk is returned as a route (source line 3242)
routeIsEmpty(points, covStreets) == Len(points) < 2 \/ Len(covStreets) = 0

availableNodesOf(g) ==
    [i \in 1..Len(g.nodeOrder) |->
        [id |-> g.nodes[g.nodeOrder[i]].id, point |-> g.nodes[g.nodeOrder[i]].point]]

\* source lines 3242-3267: the returned value
Finish ==
    /\ pc = "finish"
    /\ pc' = "done"
    /\ result' =
         IF routeIsEmpty(routePoints, coveredStreetIds) THEN Null
         ELSE LET availableNodes == availableNodesOf(graph)
              IN  [ isNull |-> FALSE,
                    points |-> routePoints,
                    streetIds |-> coveredStreetIds,
                    streetNames |-> coveredStreetNames,
                    distanceKm |-> distanceKm,
                    nodeIdsCovered |-> coveredNodeIdsForPath(routePoints, availableNodes),
                    availableNodes |-> availableNodes ]
    /\ UNCHANGED << ingestVars, inputVars, planVars, cacheVars, walkVars, iterations, mainSite,
                    spurVars, branchVars, moveVars >>

Next ==
    \/ Start
    \/ LoopHead
    \/ SpurSweep
    \/ SpurStep
    \/ SpurReturn
    \/ BranchSweep
    \/ BranchReturn
    \/ ChooseMove
    \/ LocalExtension
    \/ ConnectorStep
    \/ TargetStep
    \/ Finish

Spec == Init /\ [][Next]_vars

\* The request runs to completion: nothing suspends the synchronous planner.
\* This is WF_vars(Next) written out, []<>~ENABLED <<Next>>_vars \/ []<><<Next>>_vars,
\* with ENABLED <<Next>>_vars written as pc # "done": every handler takes a step
\* from every state at its position, and no handler acts after the return.
FairSpec == Spec /\ ([]<>(pc = "done") \/ []<><<Next>>_vars)

\* ---------------------------------------------------------------------------
\* Properties of the planner
\* ---------------------------------------------------------------------------

minOf(values) == CHOOSE m \in values : \A n \in values : m <= n

labelOf(labels, v) == (CHOOSE label \in labels : label[1] = v)[2]

arrivalsAt(g, labels, v) ==
    { labelOf(labels, g.edges[id].from) + g.edges[id].distanceKm :
        id \in { e \in DOMAIN g.edges :
                   /\ g.edges[e].to = v
                   /\ labelOf(labels, g.edges[e].from) < POSITIVE_INFINITY } }
    \cup
    { labelOf(labels, g.edges[id].to) + g.edges[id].distanceKm :
        id \in { e \in DOMAIN g.edges :
                   /\ g.edges[e].from = v
                   /\ labelOf(labels, g.edges[e].to) < POSITIVE_INFINITY } }

RECURSIVE leastWalkRounds(_, _, _)
leastWalkRounds(g, labels, rounds) ==
    IF rounds = 0 THEN labels
    ELSE leastWalkRounds(g,
            { << v, minOf({ labelOf(labels, v) } \cup arrivalsAt(g, labels, v)) >> :
                v \in DOMAIN g.nodes },
            rounds - 1)

leastWalkKm(g, s) ==
    leastWalkRounds(g,
        { << v, IF v = s THEN 0 ELSE POSITIVE_INFINITY >> : v \in DOMAIN g.nodes },
        Cardinality(DOMAIN g.nodes))

isConnectedGraph(g) ==
    \A s \in DOMAIN g.nodes :
        LET least == leastWalkKm(g, s)
        IN  \A v \in DOMAIN g.nodes : labelOf(least, v) < POSITIVE_INFINITY

\* C2, as stated: on a connected candidate graph every step that is applied
\* starts at the node where the walk stands (its from node is currentNodeId at
\* the moment it is applied), connector and target steps after the sweeps
\* included, so that no step opens a gap in the points.
C2_StepStartsAtCurrentNode ==
    (lastApplied.kind # "none" /\ isConnectedGraph(graph)) =>
        /\ lastApplied.step.from = lastApplied.at
        /\ ~lastApplied.jump

\* the longest stretch between consecutive points of any edge polyline
RECURSIVE longestStepFrom(_, _)
longestStepFrom(path, i) ==
    IF i >= Len(path) THEN 0
    ELSE Max(haversineKm(path[i], path[i + 1]), longestStepFrom(path, i + 1))

longestEdgeStep(g) ==
    LET steps == { longestStepFrom(g.edges[id].path, 1) : id \in DOMAIN g.edges }
    IN  IF steps = {} THEN 0 ELSE CHOOSE m \in steps : \A n \in steps : n <= m

\* C3, as stated: the distanceKm of a returned route is the length of its
\* points polyline to within 1 %, and no two consecutive points are further
\* apart than the longest stretch of an edge polyline.
C3_DistanceMatchesPolyline ==
    (pc = "done" /\ ~result.isNull) =>
        /\ Abs(result.distanceKm - polylineDistanceKm(result.points)) * 100
             <= result.distanceKm
        /\ \A i \in 1..(Len(result.points) - 1) :
             haversineKm(result.points[i], result.points[i + 1]) <= longestEdgeStep(graph)

\* C4: the planner terminates for every street list and every targetKm,
\* targetKm = 0 included: the outer loop runs at most maxIterations =
\* max(140, round(normalizedTargetKm * 95)) times, a spur sweep walks at most
\* maxSweeps spurs of at most 2 * 12 steps, a branch sweep takes at most
\* maxSteps steps, a connector walk is no longer than the graph has nodes, and
\* the request reaches its return.
C4_PlannerTerminates ==
    /\ [](/\ iterations <= maxIterations
          /\ spurSweeps <= maxSweeps
          /\ stepCount <= maxSteps
          /\ Len(spurSteps) <= 2 * MAX_DEPTH
          /\ Len(connectorSteps) <= Cardinality(DOMAIN graph.nodes))
    /\ <>(pc = "done")

\* a request with targetKm = 0 has returned after using every pass of the loop
C4_LoopBoundReached == pc = "done" /\ targetKm = 0 /\ iterations = maxIterations

\* the candidates of the request
requestCandidates == candidatesOf(streets, home, targetKm, cityBounds)

\* the request plans on one segment whose two end nodes differ
isIsolatedSegment ==
    /\ Len(requestCandidates) = 1
    /\ nodeIdForStreetEndpoint(requestCandidates[1], "start")
         # nodeIdForStreetEndpoint(requestCandidates[1], "end")

\* the segment's path read from the end nearer to home (the first end on a tie)
pathFromHome(street) ==
    IF DistanceSq(street.path[1], home) <= DistanceSq(street.path[Len(street.path)], home)
    THEN street.path ELSE Reverse(street.path)

\* C5, as stated: on a single isolated uncompleted segment the planner returns
\* a route whose points are the segment's two endpoints and that traverses
\* the segment exactly once; on a completed one it returns nothing.
C5_SegmentWalkedOnce ==
    (pc = "done" /\ isIsolatedSegment) =>
        IF requestCandidates[1].completed THEN result.isNull
        ELSE /\ ~result.isNull
             /\ result.points = << pathFromHome(requestCandidates[1])[1],
                                   pathFromHome(requestCandidates[1])
                                       [Len(requestCandidates[1].path)] >>
             /\ traversedEdgeCount[requestCandidates[1].id] = 1

\* C5, amended: on a single isolated uncompleted segment the planner returns
\* a route on that street alone that starts at the end nearer to home, walks
\* the segment's whole path out and back, and so traverses the segment at
\* least twice, every traversal adding the segment's length to distanceKm; on
\* a completed segment it returns nothing.
C5_SegmentWalkedOutAndBack ==
    (pc = "done" /\ isIsolatedSegment) =>
        IF requestCandidates[1].completed THEN result.isNull
        ELSE LET street == requestCandidates[1]
                 out == pathFromHome(street)
                 n == Len(out)
             IN  /\ ~result.isNull
                 /\ result.streetIds = << street.id >>
                 /\ Len(result.points) >= 2 * n - 1
                 /\ SubSeq(result.points, 1, n) = out
                 /\ SubSeq(result.points, n, 2 * n - 1) = Reverse(out)
                 /\ traversedEdgeCount[street.id] >= 2
                 /\ result.distanceKm
                      = traversedEdgeCount[street.id] * polylineDistanceKm(street.path)

\* a route has been returned for a single isolated uncompleted segment
C5_SegmentRouteReturned ==
    /\ pc = "done"
    /\ isIsolatedSegment
    /\ ~requestCandidates[1].completed
    /\ ~result.isNull

\* scenario 1 of the specification: home at the start of one uncompleted
\* 1 km segment, targetKm 1.609, no city bounds
isScenarioOne ==
    /\ Len(streets) = 1
    /\ streets[1].id = "km"
    /\ ~streets[1].completed
    /\ home = Pt(0, 0)
    /\ targetKm = 1609
    /\ cityBounds.isNull

\* C6, as stated: in scenario 1 the planner returns a route on that segment
\* alone with distanceKm between 1.0 and 1.77.
C6_ScenarioOneWithinSpecRange ==
    (pc = "done" /\ isScenarioOne) =>
        /\ ~result.isNull
        /\ result.streetIds = << "km" >>
        /\ result.distanceKm >= 1000
        /\ result.distanceKm <= 1770

\* C6, amended: in scenario 1 the planner returns the segment walked out and
\* back: streetIds is that segment alone, points are start, far end, start,
\* and distanceKm is twice the segment's length (about 2.0 km), which is
\* within hardMaxKm = 1.609 * 1.1 + 0.35 = 2.12 km.
C6_ScenarioOneOutAndBack ==
    (pc = "done" /\ isScenarioOne) =>
        /\ ~result.isNull
        /\ result.streetIds = << "km" >>
        /\ result.points = << streets[1].path[1], streets[1].path[2], streets[1].path[1] >>
        /\ result.distanceKm = 2 * polylineDistanceKm(streets[1].path)
        /\ result.distanceKm * 10 <= hardMaxKm

\* scenario 1 has returned its route
C6_ScenarioOneReturned == pc = "done" /\ isScenarioOne /\ ~result.isNull

\* C7: when every candidate street of a request is completed, or there is no
\* candidate at all, the planner returns null and has traversed no edge.
C7_NothingToCoverReturnsNull ==
    (pc = "done" /\ \A i \in DOMAIN requestCandidates : requestCandidates[i].completed) =>
        /\ result.isNull
        /\ routePoints = << >>
        /\ traversedEdgeCount = EmptyMap
        /\ distanceKm = 0

\* a request whose candidates exist and are all completed has returned
C7_AllCompletedReturned ==
    /\ pc = "done"
    /\ Len(requestCandidates) > 0
    /\ \A i \in DOMAIN requestCandidates : requestCandidates[i].completed
    /\ result.isNull

\* The distance from a point to a stretch of the walk that runs along one
\* axis: the gap to the stretch's extent in each coordinate.
gapTo(low, high, v) == IF v < low THEN low - v ELSE IF v > high THEN v - high ELSE 0

stretchDistanceSq(p, a, b) ==
    LET dLat == gapTo(Min(a.lat, b.lat), Max(a.lat, b.lat), p.lat)
        dLon == gapTo(Min(a.lon, b.lon), Max(a.lon, b.lon), p.lon)
    IN  dLat * dLat + dLon * dLon

\* within 6.096 m of the polyline (distances in metres, the radius in millimetres)
isNearPolyline(p, points) ==
    \E i \in 1..(Len(points) - 1) :
        LET d2 == stretchDistanceSq(p, points[i], points[i + 1])
        IN  d2 < 100
            /\ d2 * 1000000 <= NODE_CAPTURE_RADIUS_METERS * NODE_CAPTURE_RADIUS_METERS

idsOf(nodes) == [i \in 1..Len(nodes) |-> nodes[i].id]

\* C8: in every returned route nodeIdsCovered is exactly the nodes within
\* 6.096 m of the points polyline, none missing and none farther, in the
\* order of availableNodes, and availableNodes lists every node of the
\* planning graph once, with its point.
C8_CoveredNodesAreNearNodes ==
    (pc = "done" /\ ~result.isNull) =>
        /\ result.nodeIdsCovered
             = idsOf(SelectSeq(result.availableNodes,
                               LAMBDA node : isNearPolyline(node.point, result.points)))
        /\ Range(idsOf(result.availableNodes)) = DOMAIN graph.nodes
        /\ Len(result.availableNodes) = Cardinality(DOMAIN graph.nodes)
        /\ \A i \in DOMAIN result.availableNodes :
             result.availableNodes[i].point = graph.nodes[result.availableNodes[i].id].point

\* a returned route captures a node the walk never visited and leaves out
\* another node of the graph
C8_NodeCapturedFromAside ==
    /\ pc = "done"
    /\ ~result.isNull
    /\ \E id \in Range(result.nodeIdsCovered) : id \notin coveredNodes
    /\ \E id \in DOMAIN graph.nodes : id \notin Range(result.nodeIdsCovered)

\* where a list of edges leads from a node, each edge left by its other end;
\* NullNodeId when an edge does not touch the node reached
RECURSIVE chainEndFrom(_, _, _, _)
chainEndFrom(g, cursor, edgeIds, i) ==
    IF i > Len(edgeIds) THEN cursor
    ELSE IF edgeIds[i] \notin DOMAIN g.edges THEN NullNodeId
    ELSE LET edge == g.edges[edgeIds[i]]
         IN  IF edge.from = cursor THEN chainEndFrom(g, edge.to, edgeIds, i + 1)
             ELSE IF edge.to = cursor THEN chainEndFrom(g, edge.from, edgeIds, i + 1)
             ELSE NullNodeId

RECURSIVE chainKmFrom(_, _, _)
chainKmFrom(g, edgeIds, i) ==
    IF i > Len(edgeIds) THEN 0
    ELSE g.edges[edgeIds[i]].distanceKm + chainKmFrom(g, edgeIds, i + 1)

\* the planning graph has just been built
graphJustBuilt == pc = "loop" /\ iterations = 0

\* C9: for every graph and every pair of nodes s, t: when t is reachable from
\* s, runDijkstra(s).dist[t] is the least total edge length of a walk from s
\* to t and reconstructPathEdges is a chain of edges from s to t whose lengths
\* sum to dist[t], which shortestPathEdges returns; when t is unreachable,
\* dist[t] is infinite, prev has no entry for t and shortestPathEdges returns
\* an infinite distance with no edges.
C9_DijkstraFindsLeastWalks ==
    graphJustBuilt =>
        \A s \in DOMAIN graph.nodes :
            LET res == runDijkstra(graph, s)
                least == leastWalkKm(graph, s)
            IN  \A t \in DOMAIN graph.nodes :
                    LET edgeIds == reconstructPathEdges(res, s, t)
                        found == shortestPathEdges(graph, s :> res, s, t)
                    IN  IF labelOf(least, t) < POSITIVE_INFINITY
                        THEN /\ res.dist[t] = labelOf(least, t)
                             /\ chainEndFrom(graph, s, edgeIds, 1) = t
                             /\ chainKmFrom(graph, edgeIds, 1) = res.dist[t]
                             /\ found = [distanceKm |-> labelOf(least, t), edgeIds |-> edgeIds]
                        ELSE /\ res.dist[t] = POSITIVE_INFINITY
                             /\ t \notin DOMAIN res.prev
                             /\ found = [distanceKm |-> POSITIVE_INFINITY, edgeIds |-> << >>]

\* a graph where a later relaxation improved on a first label: some shortest
\* walk of two edges is shorter than another way there, and some node cannot
\* be reached at all
C9_GraphWithDetourAndIsland ==
    /\ graphJustBuilt
    /\ \E s \in DOMAIN graph.nodes :
         /\ \E t \in DOMAIN graph.nodes :
              Len(reconstructPathEdges(runDijkstra(graph, s), s, t)) >= 2
         /\ \E t \in DOMAIN graph.nodes :
              labelOf(leastWalkKm(graph, s), t) = POSITIVE_INFINITY

\* how often an edge is listed in the adjacency list of a node
entriesOf(g, nodeId, edgeId) ==
    Cardinality({ i \in DOMAIN adjacencyOf(g, nodeId) :
                    adjacencyOf(g, nodeId)[i].edgeId = edgeId })

\* C10, as stated: every edge of the built graph appears exactly once in the
\* adjacency list of each of its two endpoints, closed and parallel segments
\* included, and both endpoint nodes exist in nodes.
C10_EdgeOncePerEndpoint ==
    \A id \in DOMAIN graph.edges :
        /\ graph.edges[id].from \in DOMAIN graph.nodes
        /\ graph.edges[id].to \in DOMAIN graph.nodes
        /\ entriesOf(graph, graph.edges[id].from, id) = 1
        /\ entriesOf(graph, graph.edges[id].to, id) = 1

\* C10, amended: both endpoint nodes of every edge exist in nodes; an edge
\* whose endpoints differ appears exactly once in the adjacency list of each
\* of them, naming the other endpoint as neighbour, parallel segments
\* included; a closed segment, whose start and end node coincide, appears
\* exactly twice in the list of its one node; no other list names the edge.
C10_EdgeOncePerEnd ==
    \A id \in DOMAIN graph.edges :
        LET edge == graph.edges[id]
        IN  /\ edge.from \in DOMAIN graph.nodes
            /\ edge.to \in DOMAIN graph.nodes
            /\ entriesOf(graph, edge.from, id) = (IF edge.from = edge.to THEN 2 ELSE 1)
            /\ entriesOf(graph, edge.to, id) = (IF edge.from = edge.to THEN 2 ELSE 1)
            /\ [edgeId |-> id, neighbor |-> edge.to] \in Range(adjacencyOf(graph, edge.from))
            /\ [edgeId |-> id, neighbor |-> edge.from] \in Range(adjacencyOf(graph, edge.to))
            /\ \A nodeId \in DOMAIN graph.adjacency :
                 nodeId \notin { edge.from, edge.to } => entriesOf(graph, nodeId, id) = 0

\* a built graph with a closed segment and two parallel segments
C10_ClosedAndParallelBuilt ==
    /\ \E id \in DOMAIN graph.edges : graph.edges[id].from = graph.edges[id].to
    /\ \E a, b \in DOMAIN graph.edges :
         /\ a # b
         /\ graph.edges[a].from = graph.edges[b].from
         /\ graph.edges[a].to = graph.edges[b].to
         /\ graph.edges[a].from # graph.edges[a].to

-----------------------------------------------------------------------------
(* The dataset functions: street names, deduplication, the Overpass payload, *)
(* the city boundary and the loading of a city.  No planning request runs    *)
(* while one of them is examined.                                            *)

plannerIdle ==
    /\ streets = << >>
    /\ home = Pt(0, 0)
    /\ targetKm = 0
    /\ cityBounds = Null
    /\ pc = "idle"
    /\ graph = EmptyGraph
    /\ startNodeId = NullNodeId
    /\ completedByStreetId = EmptyMap
    /\ dijkstraCache = EmptyMap
    /\ dijkstraRuns = 0
    /\ routePoints = << >>
    /\ coveredStreetIds = << >>
    /\ coveredStreetNames = << >>
    /\ rewardedStreetIds = {}
    /\ coveredNodes = {}
    /\ traversedEdgeCount = EmptyMap
    /\ currentNodeId = NullNodeId
    /\ distanceKm = 0
    /\ iterations = 0
    /\ mainSite = "head"
    /\ spurCaller = "main"
    /\ maxSweeps = 0
    /\ spurSweeps = 0
    /\ spurSteps = << >>
    /\ anchorNodeId = NullNodeId
    /\ maxSteps = 0
    /\ stepCount = 0
    /\ connectorSteps = << >>
    /\ targetStep = NoStep
    /\ lastApplied = NoApplied
    /\ moveStartKm = 0
    /\ result = Null

plannerVars == << inputVars, pc, planVars, cacheVars, walkVars, iterations, mainSite,
                  spurVars, branchVars, moveVars, result >>

-----------------------------------------------------------------------------
(* normalizeStreetName.  A string is a sequence of characters; the names of  *)
(* the model are written with a lowercase letter, an uppercase letter, the   *)
(* period and two whitespace characters.                                     *)

MaxNameLen == 4

Chars == {"a", "A", ".", " ", "\t"}

\* \s of the regular expression, and the whitespace String.prototype.trim removes
isWhitespace(c) == c \in {" ", "\t"}

RECURSIVE trimStart(_)
trimStart(s) ==
    IF s # << >> /\ isWhitespace(Head(s)) THEN trimStart(Tail(s)) ELSE s

RECURSIVE trimEnd(_)
trimEnd(s) ==
    IF s # << >> /\ isWhitespace(s[Len(s)]) THEN trimEnd(SubSeq(s, 1, Len(s) - 1)) ELSE s

trim(s) == trimEnd(trimStart(s))

toLowerCase(s) == [i \in 1..Len(s) |-> IF s[i] = "A" THEN "a" ELSE s[i]]

\* .replace(/\./g, "")
removePeriods(s) == SelectSeq(s, LAMBDA c : c # ".")

\* .replace(/\s+/g, " "): every maximal run of whitespace becomes one space
RECURSIVE collapseWhitespace(_)
collapseWhitespace(s) ==
    IF s = << >> THEN << >>
    ELSE IF isWhitespace(Head(s))
         THEN << " " >> \o collapseWhitespace(trimStart(s))
         ELSE << Head(s) >> \o collapseWhitespace(Tail(s))

normalizeStreetName(s) == collapseWhitespace(removePeriods(toLowerCase(trim(s))))

Names == UNION { [1..n -> Chars] : n \in 0..MaxNameLen }

NameInit ==
    /\ plannerIdle
    /\ restIdleOfName
    /\ streetName \in Names
    /\ normalizedOnce = NoName
    /\ normalizedTwice = NoName

NormalizeName ==
    /\ streetName # NoName
    /\ normalizedOnce = NoName
    /\ normalizedOnce' = normalizeStreetName(streetName)
    /\ UNCHANGED << streetName, normalizedTwice, plannerVars, restOfName >>

NormalizeAgain ==
    /\ normalizedOnce # NoName
    /\ normalizedTwice = NoName
    /\ normalizedTwice' = normalizeStreetName(normalizedOnce)
    /\ UNCHANGED << streetName, normalizedOnce, plannerVars, restOfName >>

NameNext ==
    \/ NormalizeName
    \/ NormalizeAgain

NameSpec == NameInit /\ [][NameNext]_vars

\* C11: normalizing a normalized street name returns it unchanged, for every
\* name, a period next to leading or trailing whitespace included.
C11_NormalizeIsIdempotent == normalizedTwice # NoName => normalizedTwice = normalizedOnce

-----------------------------------------------------------------------------
(* dedupeByName.  The name of a segment is a sequence of characters here.    *)

MaxSegments == 3

\* a <= b of two id strings.  An id is "osm-node-<raw>" or "<lat>,<lon>" with
\* five decimals; the ids of the model have raw numbers of one digit and
\* coordinates in [0, 10) degrees, for which the order of the code units is the
\* order of the numbers, "0.00449,0.00000" before "osm-node-1".
idLeq(a, b) ==
    \/ a[1] = "q" /\ b[1] = "osm-node"
    \/ /\ a[1] = b[1]
       /\ \/ a[2] < b[2]
          \/ a[2] = b[2] /\ a[3] <= b[3]

sortedPair(a, b) == IF idLeq(a, b) THEN << a, b >> ELSE << b, a >>

endpointPairOf(street) ==
    IF street.startNodeId # NoNodeId /\ street.endNodeId # NoNodeId
    THEN sortedPair(street.startNodeId, street.endNodeId)
    ELSE sortedPair(quantizePoint(street.path[1]), quantizePoint(street.path[Len(street.path)]))

dedupeKey(street) == << normalizeStreetName(street.name) >> \o endpointPairOf(street)

RECURSIVE dedupeFrom(_, _, _, _)
dedupeFrom(list, i, seen, kept) ==
    IF i > Len(list) THEN kept
    ELSE IF dedupeKey(list[i]) \in seen
         THEN dedupeFrom(list, i + 1, seen, kept)
         ELSE dedupeFrom(list, i + 1, seen \cup {dedupeKey(list[i])}, Append(kept, list[i]))

dedupeByName(list) == dedupeFrom(list, 1, {}, << >>)

\* Segments between A (0,0), B 500 m east of A and C 200 m north of B, named
\* "Aa", "aa", "aA.", " aa" (one normalized name) or "a a".
DedupeCatalogue ==
    << Street("o1", << "A", "a" >>, << Pt(0, 0), Pt(0, 500) >>, OsmNode(1), OsmNode(2), "osm"),
       Street("m1", << "a", "a" >>, << Pt(0, 0), Pt(0, 250), Pt(0, 500) >>, NoNodeId, NoNodeId, "manual"),
       Street("o2", << "a", "A", "." >>, << Pt(0, 500), Pt(0, 0) >>, OsmNode(2), OsmNode(1), "osm"),
       Street("m2", << " ", "a", "a" >>, << Pt(0, 500), Pt(0, 0) >>, NoNodeId, NoNodeId, "manual"),
       Street("m3", << "a", " ", "a" >>, << Pt(0, 0), Pt(0, 500) >>, NoNodeId, NoNodeId, "manual"),
       Street("o3", << "a", "a" >>, << Pt(0, 0), Pt(0, 500) >>, OsmNode(1), NoNodeId, "osm"),
       Street("o4", << "a", "a" >>, << Pt(0, 0), Pt(200, 500) >>, OsmNode(1), OsmNode(3), "osm") >>

\* lists of up to MaxSegments different segments of the catalogue, in any order
SegmentLists ==
    { list \in UNION { [1..n -> Range(DedupeCatalogue)] : n \in 0..MaxSegments } :
        \A i, j \in 1..Len(list) : i # j => list[i] # list[j] }

DedupeInit ==
    /\ plannerIdle
    /\ restIdleOfDedupe
    /\ segments \in SegmentLists
    /\ deduped = NotReturned

DedupeByName ==
    /\ ~deduped.returned
    /\ deduped' = Returned(dedupeByName(segments))
    /\ UNCHANGED << segments, plannerVars, restOfDedupe >>

DedupeNext == DedupeByName

DedupeSpec == DedupeInit /\ [][DedupeNext]_vars

sameNormalizedName(a, b) == normalizeStreetName(a.name) = normalizeStreetName(b.name)

\* the two segments join the same two places
sameEndpoints(a, b) ==
    {quantizePoint(a.path[1]), quantizePoint(a.path[Len(a.path)])}
        = {quantizePoint(b.path[1]), quantizePoint(b.path[Len(b.path)])}

carriesOsmNodeIds(a) ==
    a.source = "osm" /\ a.startNodeId # NoNodeId /\ a.endNodeId # NoNodeId

identifiedByCoordinates(a) ==
    a.source = "manual" /\ a.startNodeId = NoNodeId /\ a.endNodeId = NoNodeId

survives(a) == a \in Range(deduped.value)

\* C12: of an OSM segment carrying osm-node ids and a manual segment
\* identified by coordinates that have the same normalized name and join the
\* same pair of endpoints, exactly one survives dedupeByName.
C12_OsmAndManualTwinDeduped ==
    deduped.returned =>
        \A a, b \in Range(segments) :
            (/\ carriesOsmNodeIds(a)
             /\ identifiedByCoordinates(b)
             /\ sameNormalizedName(a, b)
             /\ sameEndpoints(a, b))
            => (survives(a) # survives(b))

-----------------------------------------------------------------------------
(* isRunnableCityStreet and parseOverpassResponse.  An element of a payload  *)
(* is a node [type, id, point], its point Null when lat or lon is no number, *)
(* or a way [type, id, tags, nodes]; a tag that is absent is "undefined".    *)
(* A segment id "osm-<way>-<start>-<end>-<i>" is << "osm", way, start, end,  *)
(* i >>, and "osm-<way>" is << "osm", way >>.                                *)

MaxWayNodes == 4

\* tag.trim().toLowerCase() of the tag values of the model
normalizeTag(v) ==
    CASE v = " Residential" -> "residential"
      [] v = "Private " -> "private"
      [] OTHER -> v

allowedRoadTypes ==
    {"residential", "unclassified", "tertiary", "secondary", "primary", "living_street"}

isRunnableCityStreet(tags) ==
    /\ tags # Null
    /\ tags.highway # "undefined"
    /\ normalizeTag(tags.highway) \in allowedRoadTypes
    /\ normalizeTag(tags.access) \notin {"private", "no"}
    /\ normalizeTag(tags.foot) \notin {"private", "no"}
    /\ normalizeTag(tags.area) # "yes"
    /\ tags.name # NoName
    /\ trim(tags.name) # << >>

\* nodeMap: the last node element of an id with numeric lat and lon
RECURSIVE nodeMapFrom(_, _)
nodeMapFrom(elements, i) ==
    IF i = 0 THEN EmptyMap
    ELSE LET rest == nodeMapFrom(elements, i - 1)
             element == elements[i]
         IN  IF element.type = "node" /\ element.point # Null
             THEN (element.id :> element.point) @@ rest
             ELSE rest

isRetainedWay(element) ==
    /\ element.type = "way"
    /\ isRunnableCityStreet(element.tags)
    /\ Len(element.nodes) >= 2
    /\ trim(element.tags.name) # << >>

RECURSIVE retainedWaysFrom(_, _)
retainedWaysFrom(elements, i) ==
    IF i > Len(elements) THEN << >>
    ELSE IF isRetainedWay(elements[i])
         THEN << [id |-> elements[i].id, name |-> trim(elements[i].tags.name),
                  nodes |-> elements[i].nodes] >> \o retainedWaysFrom(elements, i + 1)
         ELSE retainedWaysFrom(elements, i + 1)

occurrencesIn(nodes, nodeId) == Cardinality({i \in 1..Len(nodes) : nodes[i] = nodeId})

\* nodeUsage.get(nodeId) ?? 0: one count for every place of a node list
RECURSIVE nodeUsageFrom(_, _, _)
nodeUsageFrom(ways, w, nodeId) ==
    IF w = 0 THEN 0
    ELSE nodeUsageFrom(ways, w - 1, nodeId) + occurrencesIn(ways[w].nodes, nodeId)

isSplitUsageAboveTwo(usage) == usage > 2

isSplitUsage(usage) == usage > 1

\* splitIndices of a way, as places 1..Len(nodes) of its node list
splitIndicesOf(ways, way) ==
    {1, Len(way.nodes)}
        \cup { i \in 2..(Len(way.nodes) - 1) :
                 isSplitUsage(nodeUsageFrom(ways, Len(ways), way.nodes[i])) }

\* Array.from(splitIndices).sort((a, b) => a - b)
RECURSIVE orderedFrom(_)
orderedFrom(S) ==
    IF S = {} THEN << >>
    ELSE LET least == CHOOSE x \in S : \A y \in S : x <= y
         IN  << least >> \o orderedFrom(S \ {least})

hasMissingNode(nodeMap, nodeIds) == \E k \in 1..Len(nodeIds) : nodeIds[k] \notin DOMAIN nodeMap

pathOfNodes(nodeMap, nodeIds) == [k \in 1..Len(nodeIds) |-> nodeMap[nodeIds[k]]]

\* the segments of one way from the split of rank i on
RECURSIVE segmentsOfWay(_, _, _, _)
segmentsOfWay(nodeMap, way, orderedSplits, i) ==
    IF i > Len(orderedSplits) THEN << >>
    ELSE LET fromIndex == orderedSplits[i - 1]
             toIndex == orderedSplits[i]
             segmentNodeIds == SubSeq(way.nodes, fromIndex, toIndex)
             rest == segmentsOfWay(nodeMap, way, orderedSplits, i + 1)
         IN  IF toIndex <= fromIndex \/ Len(segmentNodeIds) < 2
                \/ hasMissingNode(nodeMap, segmentNodeIds)
             THEN rest
             ELSE << Street(<< "osm", way.id, segmentNodeIds[1],
                               segmentNodeIds[Len(segmentNodeIds)], i - 1 >>,
                            way.name, pathOfNodes(nodeMap, segmentNodeIds),
                            OsmNode(segmentNodeIds[1]),
                            OsmNode(segmentNodeIds[Len(segmentNodeIds)]), "osm") >> \o rest

RECURSIVE splitSegmentsFrom(_, _, _)
splitSegmentsFrom(nodeMap, ways, w) ==
    IF w > Len(ways) THEN << >>
    ELSE segmentsOfWay(nodeMap, ways[w], orderedFrom(splitIndicesOf(ways, ways[w])), 2)
             \o splitSegmentsFrom(nodeMap, ways, w + 1)

wholeWayHasPath(nodeMap, way) == ~hasMissingNode(nodeMap, way.nodes)

RECURSIVE wholeWaySegmentsFrom(_, _, _)
wholeWaySegmentsFrom(nodeMap, ways, w) ==
    IF w > Len(ways) THEN << >>
    ELSE LET way == ways[w]
             rest == wholeWaySegmentsFrom(nodeMap, ways, w + 1)
         IN  IF ~wholeWayHasPath(nodeMap, way) \/ Len(way.nodes) < 2
             THEN rest
             ELSE << Street(<< "osm", way.id >>, way.name, pathOfNodes(nodeMap, way.nodes),
                            OsmNode(way.nodes[1]), OsmNode(way.nodes[Len(way.nodes)]),
                            "osm") >> \o rest

retainedWays(p) == retainedWaysFrom(p.elements, 1)
nodeMapOf(p) == nodeMapFrom(p.elements, Len(p.elements))
noSplitSegments(p) == << >>

splitSegments(p) == splitSegmentsFrom(nodeMapOf(p), retainedWays(p), 1)

parseOverpassResponse(p) ==
    IF retainedWays(p) = << >> THEN << >>
    ELSE IF splitSegments(p) = << >>
         THEN wholeWaySegmentsFrom(nodeMapOf(p), retainedWays(p), 1)
         ELSE splitSegments(p)

\* The payloads of the model: the nodes 1, 2, 3 in a row 100 m apart, node 3
\* with or without coordinates; way 1, a named residential street of up to
\* MaxWayNodes nodes; way 2, a street of two nodes with one of five tag sets.
NodeIds == 1..3

Tags(highway, access, tagName) ==
    [highway |-> highway, access |-> access, foot |-> "undefined", area |-> "undefined",
     name |-> tagName]

TagSets ==
    { Tags("residential", "undefined", << " ", "a" >>),
      Tags(" Residential", "yes", << "a" >>),
      Tags("motorway", "undefined", << "a" >>),
      Tags("residential", "Private ", << "a" >>),
      Tags("tertiary", "undefined", << " " >>) }

NodeElement(id, located) ==
    [type |-> "node", id |-> id, point |-> IF located THEN Pt(0, 100 * id) ELSE Null]

WayElement(id, tags, nodes) == [type |-> "way", id |-> id, tags |-> tags, nodes |-> nodes]

WayNodeLists == UNION { [1..n -> NodeIds] : n \in 1..MaxWayNodes }

Payloads ==
    { [elements |->
          << NodeElement(1, TRUE), NodeElement(2, TRUE), NodeElement(3, located),
             WayElement(1, Tags("residential", "undefined", << "A" >>), nodes1),
             WayElement(2, tags2, nodes2) >>] :
        located \in BOOLEAN, nodes1 \in WayNodeLists, tags2 \in TagSets,
        nodes2 \in [1..2 -> NodeIds] }

ParseInit ==
    /\ plannerIdle
    /\ restIdleOfParse
    /\ payload \in Payloads
    /\ parsed = NotReturned

ParseOverpassResponse ==
    /\ ~parsed.returned
    /\ parsed' = Returned(parseOverpassResponse(payload))
    /\ UNCHANGED << payload, plannerVars, restOfParse >>

ParseNext == ParseOverpassResponse

ParseSpec == ParseInit /\ [][ParseNext]_vars

\* the segments returned for one way, and the places of its node list at which
\* they begin and end
segmentsReturnedFor(way) == SelectSeq(parsed.value, LAMBDA sgm : sgm.id[2] = way.id)

RECURSIVE splitPlacesFrom(_, _, _)
splitPlacesFrom(segs, k, at) ==
    IF k > Len(segs) THEN {at}
    ELSE {at} \cup splitPlacesFrom(segs, k + 1, at + Len(segs[k].path) - 1)

splitPlacesReturned(way) == splitPlacesFrom(segmentsReturnedFor(way), 1, 1)

allNodesLocated(way) == \A k \in 1..Len(way.nodes) : way.nodes[k] \in DOMAIN nodeMapOf(payload)

waysUsing(nodeId) ==
    { w \in 1..Len(retainedWays(payload)) :
        \E k \in 1..Len(retainedWays(payload)[w].nodes) :
            retainedWays(payload)[w].nodes[k] = nodeId }

occurrencesOf(nodeId) ==
    Cardinality({ wk \in (1..Len(retainedWays(payload))) \X (1..MaxWayNodes) :
                    /\ wk[2] <= Len(retainedWays(payload)[wk[1]].nodes)
                    /\ retainedWays(payload)[wk[1]].nodes[wk[2]] = nodeId })

interiorPlaces(way) == 2..(Len(way.nodes) - 1)

\* a way [n1, n2, n3] of three different nodes whose n2 lies on another way
isWayWithSharedMiddle(way) ==
    /\ Len(way.nodes) = 3
    /\ Cardinality(Range(way.nodes)) = 3
    /\ Cardinality(waysUsing(way.nodes[2])) >= 2

yieldsTwoHalves(way) ==
    /\ Len(segmentsReturnedFor(way)) = 2
    /\ segmentsReturnedFor(way)[1].startNodeId = OsmNode(way.nodes[1])
    /\ segmentsReturnedFor(way)[1].endNodeId = OsmNode(way.nodes[2])
    /\ segmentsReturnedFor(way)[2].startNodeId = OsmNode(way.nodes[2])
    /\ segmentsReturnedFor(way)[2].endNodeId = OsmNode(way.nodes[3])

\* C13, as stated: a retained way is split at its first node, at its last node
\* and at exactly those interior nodes that at least two retained ways use; a
\* way [n1, n2, n3] whose n2 lies on another way yields n1-n2 and n2-n3.
C13_SplitAtNodesOfTwoWays ==
    parsed.returned =>
        \A way \in Range(retainedWays(payload)) :
            allNodesLocated(way) =>
                /\ splitPlacesReturned(way)
                     = {1, Len(way.nodes)}
                         \cup { i \in interiorPlaces(way) :
                                  Cardinality(waysUsing(way.nodes[i])) >= 2 }
                /\ isWayWithSharedMiddle(way) => yieldsTwoHalves(way)

\* C13, amended: a retained way is split at its first node, at its last node
\* and at exactly those interior nodes that occur at least twice in the node
\* lists of the retained ways, a second occurrence in the same way counting; a
\* way [n1, n2, n3] whose n2 lies on another way yields n1-n2 and n2-n3.
C13_SplitAtNodesOccurringTwice ==
    parsed.returned =>
        \A way \in Range(retainedWays(payload)) :
            allNodesLocated(way) =>
                /\ splitPlacesReturned(way)
                     = {1, Len(way.nodes)}
                         \cup { i \in interiorPlaces(way) : occurrencesOf(way.nodes[i]) >= 2 }
                /\ isWayWithSharedMiddle(way) => yieldsTwoHalves(way)

\* a way [n1, n2, n3] whose middle node lies on a second retained way has been
\* parsed, next to a way that passes one of its own nodes twice
C13_SharedMiddleParsed ==
    /\ parsed.returned
    /\ \E way \in Range(retainedWays(payload)) :
          allNodesLocated(way) /\ isWayWithSharedMiddle(way) /\ yieldsTwoHalves(way)

isWholeWaySegmentOf(sgm, way) == sgm.id = << "osm", way.id >>

isSplitSegmentOf(sgm, way) == Len(sgm.id) = 5 /\ sgm.id[1] = "osm" /\ sgm.id[2] = way.id

oneWholeWaySegmentPerWay ==
    /\ Len(parsed.value) = Len(retainedWays(payload))
    /\ \A w \in 1..Len(retainedWays(payload)) :
          isWholeWaySegmentOf(parsed.value[w], retainedWays(payload)[w])

\* C14, as stated: when the splitting produces no segment, as for a payload
\* with a single retained way, the result is one segment per retained way,
\* with id osm-<wayId>.
C14_FallbackToWholeWays ==
    (parsed.returned /\ retainedWays(payload) # << >>) =>
        /\ splitSegments(payload) = << >> => oneWholeWaySegmentPerWay
        /\ Len(retainedWays(payload)) = 1 => oneWholeWaySegmentPerWay

\* C14, amended: the splitting produces no segment only when every retained
\* way has a node without coordinates, and then the fallback produces none
\* either: the result is empty.  No returned segment has the id osm-<wayId>; a
\* single retained way whose nodes all have coordinates yields segments with
\* ids osm-<wayId>-<start>-<end>-<i>.
C14_FallbackYieldsNothing ==
    (parsed.returned /\ retainedWays(payload) # << >>) =>
        /\ splitSegments(payload) = << >> =>
              /\ parsed.value = << >>
              /\ \A way \in Range(retainedWays(payload)) : ~allNodesLocated(way)
        /\ \A sgm \in Range(parsed.value) : \A way \in Range(retainedWays(payload)) :
              ~isWholeWaySegmentOf(sgm, way)
        /\ (Len(retainedWays(payload)) = 1 /\ allNodesLocated(retainedWays(payload)[1])) =>
              /\ parsed.value # << >>
              /\ \A sgm \in Range(parsed.value) :
                    isSplitSegmentOf(sgm, retainedWays(payload)[1])

\* a payload with retained ways has been parsed whose splitting produced no
\* segment
C14_SplitProducedNothing ==
    /\ parsed.returned
    /\ retainedWays(payload) # << >>
    /\ splitSegments(payload) = << >>

-----------------------------------------------------------------------------
(* The city boundary: a list of polygons [outer, holes], every ring a list   *)
(* of points; and constrainToCityLimits of loadStreetsFromOSM.               *)

MaxLimitStreets == 2

\* cross = 0 within the tolerance of 1e-10, and point within the box of a-b
isPointOnSegment(point, a, b) ==
    /\ (point.lat - a.lat) * (b.lon - a.lon) - (point.lon - a.lon) * (b.lat - a.lat) = 0
    /\ point.lat >= Min(a.lat, b.lat)
    /\ point.lat <= Max(a.lat, b.lat)
    /\ point.lon >= Min(a.lon, b.lon)
    /\ point.lon <= Max(a.lon, b.lon)

\* point.lon < (b.lon - a.lon) * (point.lat - a.lat) / (b.lat - a.lat) + a.lon,
\* both sides multiplied by b.lat - a.lat, which is not 0 here
rayCrosses(point, a, b) ==
    /\ (a.lat > point.lat) # (b.lat > point.lat)
    /\ IF b.lat > a.lat
       THEN (point.lon - a.lon) * (b.lat - a.lat) < (b.lon - a.lon) * (point.lat - a.lat)
       ELSE (point.lon - a.lon) * (b.lat - a.lat) > (b.lon - a.lon) * (point.lat - a.lat)

\* the edge that ends at ring[i] begins at ring[i - 1], the first one at the last point
edgeStart(ring, i) == IF i = 1 THEN ring[Len(ring)] ELSE ring[i - 1]

isPointInRing(point, ring) ==
    IF Len(ring) < 3 THEN FALSE
    ELSE IF \E i \in 1..Len(ring) : isPointOnSegment(point, edgeStart(ring, i), ring[i])
         THEN TRUE
    ELSE Cardinality({ i \in 1..Len(ring) : rayCrosses(point, edgeStart(ring, i), ring[i]) }) % 2 = 1

isPointInCityBoundary(point, boundary) ==
    \E k \in 1..Len(boundary.polygons) :
        /\ isPointInRing(point, boundary.polygons[k].outer)
        /\ ~\E h \in 1..Len(boundary.polygons[k].holes) :
               isPointInRing(point, boundary.polygons[k].holes[h])

closedRing(ring) == IF ring = << >> THEN ring ELSE Append(ring, ring[1])

\* distancePointToPathMeters is squared metres: d <= paddingMeters is d2 <= paddingMeters^2
isPointNearCityBoundary(point, boundary, paddingMeters) ==
    \E k \in 1..Len(boundary.polygons) :
        \/ distancePointToPathMeters(point, closedRing(boundary.polygons[k].outer))
              <= paddingMeters * paddingMeters
        \/ \E h \in 1..Len(boundary.polygons[k].holes) :
              distancePointToPathMeters(point, closedRing(boundary.polygons[k].holes[h]))
                 <= paddingMeters * paddingMeters

isPointInCityBoundaryWithPadding(point, boundary, paddingMeters) ==
    IF isPointInCityBoundary(point, boundary) THEN TRUE
    ELSE IF paddingMeters <= 0 THEN FALSE
    ELSE isPointNearCityBoundary(point, boundary, paddingMeters)

meetsInsideShareOfSeventy(insideCount, total) == insideCount * 100 >= 70 * total

\* insideCount / street.path.length >= 0.72
meetsInsideShare(insideCount, total) == insideCount * 100 >= 72 * total

isStreetInsideCityBoundary(street, boundary) ==
    IF Len(street.path) < 2 THEN FALSE
    ELSE IF \/ ~isPointInCityBoundaryWithPadding(street.path[1], boundary, 40)
            \/ ~isPointInCityBoundaryWithPadding(street.path[Len(street.path)], boundary, 40)
         THEN FALSE
    ELSE meetsInsideShare(
             Cardinality({ i \in DOMAIN street.path :
                             isPointInCityBoundaryWithPadding(street.path[i], boundary, 22) }),
             Len(street.path))

filterStreetsToCityBoundary(input, boundary) ==
    SelectSeq(input, LAMBDA street : isStreetInsideCityBoundary(street, boundary))

constrainToBounds(input, geo) == filterStreetsToCityBounds(input, geo.bounds)

constrainToCityLimits(input, geo) ==
    IF geo.boundary # Null /\ filterStreetsToCityBoundary(input, geo.boundary) # << >>
    THEN filterStreetsToCityBoundary(input, geo.boundary)
    ELSE filterStreetsToCityBounds(input, geo.bounds)

\* The cities of the model, all with the bounding box [0, 1000] x [0, 1000]:
\* an L-shaped polygon without its north-east quarter, a square with a square
\* hole in the middle, and a city without a polygon.
Ring(points) == [k \in 1..Len(points) |-> Pt(points[k][1], points[k][2])]

CityBox == [south |-> 0, north |-> 1000, west |-> 0, east |-> 1000]

GeoWithL ==
    [bounds |-> CityBox,
     boundary |-> [polygons |->
        << [outer |-> Ring(<< <<0, 0>>, <<0, 1000>>, <<500, 1000>>, <<500, 500>>,
                              <<1000, 500>>, <<1000, 0>> >>),
            holes |-> << >>] >>]]

GeoWithHole ==
    [bounds |-> CityBox,
     boundary |-> [polygons |->
        << [outer |-> Ring(<< <<0, 0>>, <<0, 1000>>, <<1000, 1000>>, <<1000, 0>> >>),
            holes |-> << Ring(<< <<400, 400>>, <<400, 600>>, <<600, 600>>,
                                 <<600, 400>> >>) >>] >>]]

GeoWithoutPolygon == [bounds |-> CityBox, boundary |-> Null]

Geos == {GeoWithL, GeoWithHole, GeoWithoutPolygon}

\* a path of n points 10 m apart, 100 m inside the southern edge of the city,
\* of which the k points after the first lie 75 m south of that edge
pathWithOutside(n, k) ==
    [i \in 1..n |-> Pt(IF i \in 2..(k + 1) THEN 0 - 75 ELSE 100, 100 + 10 * i)]

LimitsCatalogue ==
    << Street("in", "In St", << Pt(100, 100), Pt(100, 300) >>, OsmNode(1), OsmNode(2), "osm"),
       Street("quarter", "Quarter St", << Pt(700, 700), Pt(800, 800) >>, OsmNode(3), OsmNode(4), "osm"),
       Street("middle", "Middle St", << Pt(450, 450), Pt(550, 550) >>, OsmNode(5), OsmNode(6), "osm"),
       Street("far", "Far St", << Pt(2000, 2000), Pt(2100, 2000) >>, OsmNode(7), OsmNode(8), "osm"),
       Street("edge", "Edge St", << Pt(0 - 30, 100), Pt(100, 100) >>, OsmNode(9), OsmNode(1), "osm"),
       Street("s28", "Dip A", pathWithOutside(25, 7), NoNodeId, NoNodeId, "osm"),
       Street("s30", "Dip B", pathWithOutside(10, 3), NoNodeId, NoNodeId, "osm"),
       Street("s35", "Dip C", pathWithOutside(20, 7), NoNodeId, NoNodeId, "osm") >>

RECURSIVE pickFromAt(_, _)
pickFromAt(chosen, i) ==
    IF i > Len(LimitsCatalogue) THEN << >>
    ELSE IF i \in chosen THEN << LimitsCatalogue[i] >> \o pickFromAt(chosen, i + 1)
    ELSE pickFromAt(chosen, i + 1)

pickFrom(chosen) == pickFromAt(chosen, 1)

\* up to MaxLimitStreets streets of the catalogue, in its order
LimitsInputs ==
    { pickFrom(chosen) : chosen \in { c \in SUBSET (1..Len(LimitsCatalogue)) :
                                        Cardinality(c) <= MaxLimitStreets } }

LimitsInit ==
    /\ plannerIdle
    /\ restIdleOfLimits
    /\ limitsInput \in LimitsInputs
    /\ cityLimits \in Geos
    /\ polygonFiltered = NotReturned
    /\ constrained = NotReturned

ConstrainToCityLimits ==
    /\ ~constrained.returned
    /\ polygonFiltered' = IF cityLimits.boundary # Null
                          THEN Returned(filterStreetsToCityBoundary(limitsInput, cityLimits.boundary))
                          ELSE polygonFiltered
    /\ constrained' = Returned(constrainToCityLimits(limitsInput, cityLimits))
    /\ UNCHANGED << limitsInput, cityLimits, plannerVars, restOfLimits >>

LimitsNext == ConstrainToCityLimits

LimitsSpec == LimitsInit /\ [][LimitsNext]_vars

hasPolygon == cityLimits.boundary # Null

keptByPolygonRule(street) == isStreetInsideCityBoundary(street, cityLimits.boundary)

keptByBoundingBox(street) == isStreetInsideCityBounds(street, cityLimits.bounds)

isConstrainedTo(street) == street \in Range(constrained.value)

isOutsideBy75(point) ==
    /\ ~isPointInCityBoundary(point, cityLimits.boundary)
    /\ \A k \in 1..Len(cityLimits.boundary.polygons) :
          distancePointToPathMeters(point, closedRing(cityLimits.boundary.polygons[k].outer))
             = 75 * 75

outsideCount(street) ==
    Cardinality({ i \in DOMAIN street.path : isOutsideBy75(street.path[i]) })

\* endpoints inside the polygon, every other point inside or 75 m outside
isDippingStreet(street) ==
    /\ Len(street.path) >= 2
    /\ isPointInCityBoundary(street.path[1], cityLimits.boundary)
    /\ isPointInCityBoundary(street.path[Len(street.path)], cityLimits.boundary)
    /\ \A i \in DOMAIN street.path :
          \/ isPointInCityBoundary(street.path[i], cityLimits.boundary)
          \/ isOutsideBy75(street.path[i])

isKeptByPolygon(street) == street \in Range(polygonFiltered.value)

\* C16, as stated: under polygon containment a segment with its endpoints
\* inside and 30% of its points 75 m outside is retained, and one with 35% of
\* its points outside is excluded.
C16_ThirtyPercentOutsideRetained ==
    (constrained.returned /\ hasPolygon) =>
        \A street \in Range(limitsInput) :
            isDippingStreet(street) =>
                /\ outsideCount(street) * 100 = 30 * Len(street.path) => isKeptByPolygon(street)
                /\ outsideCount(street) * 100 = 35 * Len(street.path) => ~isKeptByPolygon(street)

\* C16, amended: under polygon containment a segment with its endpoints
\* inside and some of its points 75 m outside is retained exactly when at
\* most 28% of its points are outside: with 30% or with 35% outside it is
\* excluded.
C16_TwentyEightPercentOutsideRetained ==
    (constrained.returned /\ hasPolygon) =>
        \A street \in Range(limitsInput) :
            isDippingStreet(street) =>
                isKeptByPolygon(street) = (outsideCount(street) * 100 <= 28 * Len(street.path))

\* the streets with 28% and with 30% of their points outside have been put to
\* a polygon
C16_DippingStreetsFiltered ==
    /\ constrained.returned
    /\ hasPolygon
    /\ \E street \in Range(limitsInput) :
          /\ isDippingStreet(street)
          /\ outsideCount(street) * 100 = 28 * Len(street.path)
          /\ isKeptByPolygon(street)
    /\ \E street \in Range(limitsInput) :
          /\ isDippingStreet(street)
          /\ outsideCount(street) * 100 = 30 * Len(street.path)
          /\ ~isKeptByPolygon(street)

-----------------------------------------------------------------------------
(* requestOverpass and loadStreetsFromOSM.  A state lies between two awaits: *)
(* one request is in flight, to the Overpass endpoint endpointIndex for the  *)
(* query of position loadPc, or to Nominatim for the variant variantIndex.   *)
(* An action is the arrival of its outcome and the code that runs up to the  *)
(* next request.  What a server answers does not depend on the query text,   *)
(* which the model leaves out.  A city is the list of its comma-separated    *)
(* parts.                                                                    *)

\* the hosts of OVERPASS_ENDPOINTS
OVERPASS_ENDPOINTS == << "overpass-api.de", "overpass.kumi.systems", "lz4.overpass-api.de" >>

RECURSIVE withoutRepeats(_, _)
withoutRepeats(list, i) ==
    IF i = 0 THEN << >>
    ELSE LET rest == withoutRepeats(list, i - 1)
         IN  IF list[i] \in Range(rest) THEN rest ELSE Append(rest, list[i])

\* new Set([raw]), commaParts[0], commaParts[0] + ", " + commaParts[1], raw + ", USA"
buildCityVariants(parts) ==
    IF parts = << >> THEN << >>
    ELSE LET listed == << parts, << parts[1] >> >>
                         \o (IF Len(parts) > 1 THEN << << parts[1], parts[2] >> >> ELSE << >>)
                         \o << Append(parts, "USA") >>
         IN  withoutRepeats(listed, Len(listed))

variants == buildCityVariants(city)

Cities == { << >>, << "Paris" >>, << "Paris", "TX" >> }

\* how a request to an Overpass endpoint can fail: a status that is not OK, a
\* rejected fetch, the abort after 55 s, an OK response whose body is no JSON
OverpassFailures ==
    { [kind |-> "status", text |-> "503"],
      [kind |-> "error", text |-> "Failed to fetch"],
      [kind |-> "timeout", text |-> "The operation was aborted"],
      [kind |-> "body", text |-> "Unexpected token"] }

\* payloads an endpoint answers with: no runnable way, or two ways that meet
\* in node 2
OverpassPayloads ==
    { [elements |-> << NodeElement(1, TRUE), NodeElement(2, TRUE),
                       WayElement(1, Tags("motorway", "undefined", << "a" >>), << 1, 2 >>) >>],
      [elements |-> << NodeElement(1, TRUE), NodeElement(2, TRUE), NodeElement(3, TRUE),
                       WayElement(1, Tags("residential", "undefined", << "a" >>), << 1, 2, 3 >>),
                       WayElement(2, Tags("tertiary", "undefined", << "A" >>), << 3, 2 >>) >>] }

\* what fetchNominatimGeo resolves a variant to: the city around the streets,
\* with its polygon, or a place far from them, without polygon
NominatimGeos ==
    { GeoWithL,
      [bounds |-> [south |-> 5000, north |-> 6000, west |-> 5000, east |-> 6000],
       boundary |-> Null] }

LoadReturned(streetList, label, bounds) ==
    [status |-> "returned", streets |-> streetList, sourceLabel |-> label, cityBounds |-> bounds]

\* an error and its message, the text first, what the text lists after it
LoadFailed(text) == [status |-> "failed", message |-> << text >>]

\* areaResults.slice().sort((a, b) => b.streets.length - a.streets.length)[0]:
\* the sort is stable, so the first of the longest
RECURSIVE firstLongest(_, _)
firstLongest(list, i) ==
    IF i = 1 THEN 1
    ELSE LET best == firstLongest(list, i - 1)
         IN  IF Len(list[i].streets) > Len(list[best].streets) THEN i ELSE best

bestAreaStreets(results) ==
    IF results = << >> THEN << >> ELSE results[firstLongest(results, Len(results))].streets

bestAreaLabel(results) ==
    IF results = << >> THEN << "OpenStreetMap area", city >>
    ELSE << "OpenStreetMap area", variants[results[firstLongest(results, Len(results))].variant] >>

boundaryLabel(geo) ==
    IF geo.boundary # Null THEN "administrative boundary" ELSE "city bounds fallback"

\* lines 1674-1700: the three constrained lists, the longest wins
finishLoad(results, bbox, around, geo) ==
    LET winners ==
            << [streets |-> constrainToCityLimits(bestAreaStreets(results), geo),
                label |-> << bestAreaLabel(results), "constrained to", boundaryLabel(geo) >>],
               [streets |-> constrainToCityLimits(bbox, geo),
                label |-> << "OpenStreetMap bbox fallback", "constrained to", boundaryLabel(geo) >>],
               [streets |-> constrainToCityLimits(around, geo),
                label |-> << "OpenStreetMap center-radius fallback", "constrained to",
                             boundaryLabel(geo) >>] >>
        best == winners[firstLongest(winners, Len(winners))]
    IN  IF best.streets # << >>
        THEN LoadReturned(best.streets, best.label, geo.bounds)
        ELSE LoadFailed("No runnable streets found within city limits")

\* lines 1620-1631: no variant resolved
withoutGeo(results) ==
    IF bestAreaStreets(results) # << >>
    THEN LoadReturned(bestAreaStreets(results), bestAreaLabel(results), Null)
    ELSE LoadFailed("Could not resolve city bounds")

LoadInit ==
    /\ plannerIdle
    /\ restIdleOfLoad
    /\ city \in Cities
    /\ loadPc = "start"
    /\ variantIndex = 0
    /\ areaResults = << >>
    /\ nominatimGeo = NoGeo
    /\ bboxStreets = << >>
    /\ aroundStreets = << >>
    /\ endpointIndex = 0
    /\ failures = << >>
    /\ contacts = << >>
    /\ callOutcome = "none"
    /\ anyOverpassOk = FALSE
    /\ nominatimLog = << >>
    /\ loadResult = LoadPending

\* loadStreetsFromOSM up to its first request
BeginLoad ==
    /\ loadPc = "start"
    /\ IF variants = << >>
       THEN /\ loadPc' = "done"
            /\ loadResult' = withoutGeo(<< >>)
            /\ UNCHANGED << variantIndex, endpointIndex >>
       ELSE /\ loadPc' = "area"
            /\ variantIndex' = 1
            /\ endpointIndex' = 1
            /\ UNCHANGED loadResult
    /\ UNCHANGED << city, areaResults, nominatimGeo, bboxStreets, aroundStreets, failures,
                    contacts, callOutcome, anyOverpassOk, nominatimLog, plannerVars,
                    restOfLoad >>

\* The call of requestOverpass for the query at loadPc has ended, with a
\* payload or with the error of line 1577, and its caller goes on to the next
\* request: lines 1594-1602, 1612-1614, 1640-1658 and 1660-1700.
OverpassCallEnds(callOk, got) ==
    /\ callOutcome' = IF callOk THEN "returned" ELSE "threw"
    /\ anyOverpassOk' = (anyOverpassOk \/ callOk)
    /\ areaResults' = IF loadPc = "area" /\ callOk
                      THEN Append(areaResults, [variant |-> variantIndex, streets |-> got])
                      ELSE areaResults
    /\ bboxStreets' = IF loadPc = "bbox" /\ callOk THEN got ELSE bboxStreets
    /\ aroundStreets' = IF loadPc = "around" /\ callOk THEN got ELSE aroundStreets
    /\ CASE loadPc = "area" /\ variantIndex < Len(variants) ->
              /\ loadPc' = "area"
              /\ variantIndex' = variantIndex + 1
              /\ endpointIndex' = 1
              /\ UNCHANGED loadResult
         [] loadPc = "area" /\ variantIndex >= Len(variants) ->
              /\ loadPc' = "nominatim"
              /\ variantIndex' = 1
              /\ endpointIndex' = 0
              /\ UNCHANGED loadResult
         [] loadPc = "bbox" ->
              /\ loadPc' = "around"
              /\ endpointIndex' = 1
              /\ UNCHANGED << variantIndex, loadResult >>
         [] loadPc = "around" ->
              /\ loadPc' = "done"
              /\ endpointIndex' = 0
              /\ loadResult' = finishLoad(areaResults, bboxStreets, aroundStreets', nominatimGeo)
              /\ UNCHANGED variantIndex
    /\ UNCHANGED << city, nominatimGeo, nominatimLog, plannerVars, restOfLoad >>

overpassInFlight == loadPc \in {"area", "bbox", "around"}

\* const failures = [] of a call that begins; contacts, the endpoints the call
\* has heard from, is kept with it, and both stay readable after the call
\* until the next call hears from its first endpoint
failuresSoFar == IF endpointIndex = 1 THEN << >> ELSE failures
contactsSoFar == IF endpointIndex = 1 THEN << >> ELSE contacts

\* lines 1552-1570: the endpoint answers OK with a JSON body, which is returned
OverpassResponds ==
    /\ overpassInFlight
    /\ contacts' = Append(contactsSoFar, [endpoint |-> endpointIndex, responseOk |-> TRUE,
                                          kind |-> "json"])
    /\ failures' = failuresSoFar
    /\ \E body \in OverpassPayloads : OverpassCallEnds(TRUE, parseOverpassResponse(body))

isSecondEndpoint(i) == i >= 2

isLastEndpoint(i) == i >= Len(OVERPASS_ENDPOINTS)

\* lines 1565-1567 and 1571-1574: the failure is noted, and the next endpoint
\* is asked or, after the last one, the call throws (line 1577)
OverpassFails ==
    /\ overpassInFlight
    /\ \E failure \in OverpassFailures :
          /\ contacts' = Append(contactsSoFar, [endpoint |-> endpointIndex,
                                                responseOk |-> failure.kind = "body",
                                                kind |-> failure.kind])
          /\ failures' = Append(failuresSoFar,
                                << OVERPASS_ENDPOINTS[endpointIndex], failure.text >>)
    /\ IF isLastEndpoint(endpointIndex)
       THEN OverpassCallEnds(FALSE, << >>)
       ELSE /\ endpointIndex' = endpointIndex + 1
            /\ callOutcome' = "pending"
            /\ UNCHANGED << city, loadPc, variantIndex, areaResults, nominatimGeo,
                            bboxStreets, aroundStreets, anyOverpassOk, nominatimLog,
                            loadResult, plannerVars, restOfLoad >>

\* lines 1614-1617 and 1633-1639: a variant is resolved, the bbox query goes out
NominatimResolves ==
    /\ loadPc = "nominatim"
    /\ \E geo \in NominatimGeos : nominatimGeo' = geo
    /\ nominatimLog' = Append(nominatimLog, "geo")
    /\ loadPc' = "bbox"
    /\ endpointIndex' = 1
    /\ UNCHANGED << city, variantIndex, areaResults, bboxStreets, aroundStreets, failures,
                    contacts, callOutcome, anyOverpassOk, loadResult, plannerVars,
                    restOfLoad >>

\* lines 1404-1406, 1419-1421, 1507-1529: a status that is not OK, an empty
\* list or no usable bounding box: fetchNominatimGeo returns null
NominatimReturnsNull ==
    /\ loadPc = "nominatim"
    /\ nominatimLog' = Append(nominatimLog, "null")
    /\ IF variantIndex < Len(variants)
       THEN /\ variantIndex' = variantIndex + 1
            /\ UNCHANGED << loadPc, loadResult >>
       ELSE /\ loadPc' = "done"
            /\ loadResult' = withoutGeo(areaResults)
            /\ UNCHANGED variantIndex
    /\ UNCHANGED << city, areaResults, nominatimGeo, bboxStreets, aroundStreets,
                    endpointIndex, failures, contacts, callOutcome, anyOverpassOk,
                    plannerVars, restOfLoad >>

\* lines 1395-1403 and 1614: the fetch rejects, by a network error or by the
\* abort after 20 s; nothing catches the rejection
NominatimThrows ==
    /\ loadPc = "nominatim"
    /\ \E outcome \in {"error", "timeout"} :
          /\ nominatimLog' = Append(nominatimLog, outcome)
          /\ loadResult' = LoadFailed(IF outcome = "error" THEN "Failed to fetch"
                                      ELSE "The operation was aborted")
    /\ loadPc' = "done"
    /\ UNCHANGED << city, variantIndex, areaResults, nominatimGeo, bboxStreets, aroundStreets,
                    endpointIndex, failures, contacts, callOutcome, anyOverpassOk,
                    plannerVars, restOfLoad >>

LoadNext ==
    \/ BeginLoad
    \/ OverpassResponds
    \/ OverpassFails
    \/ NominatimResolves
    \/ NominatimReturnsNull
    \/ NominatimThrows

LoadSpec == LoadInit /\ [][LoadNext]_vars

callHasEnded == callOutcome \in {"returned", "threw"}

\* the endpoints are heard from in the listed order, and the request in flight
\* goes to the endpoint after them
contactsInOrder ==
    /\ \A k \in 1..Len(contacts) : contacts[k].endpoint = k
    /\ callOutcome = "pending" =>
          /\ overpassInFlight
          /\ endpointIndex = Len(contacts) + 1
          /\ endpointIndex <= Len(OVERPASS_ENDPOINTS)

failsOnlyAfterAll ==
    callOutcome = "threw" =>
        /\ Len(contacts) = Len(OVERPASS_ENDPOINTS)
        /\ \A k \in 1..Len(contacts) : contacts[k].kind # "json"

\* C17, as stated: the endpoints are contacted in the listed order, one at a
\* time; after a status that is not OK, a thrown error or a timeout the next
\* endpoint is asked; the first OK response is returned, and no endpoint is
\* contacted after it; the call fails only after all three have failed.
C17_FirstOkResponseReturned ==
    /\ contactsInOrder
    /\ failsOnlyAfterAll
    /\ \A k \in 1..Len(contacts) :
          IF contacts[k].responseOk
          THEN k = Len(contacts) /\ callOutcome = "returned"
          ELSE k < Len(contacts) \/ callOutcome \in {"pending", "threw"}

\* C17, amended: the endpoints are contacted in the listed order, one at a
\* time; after a status that is not OK, a thrown error, a timeout or an OK
\* response whose body is not JSON the next endpoint is asked; the first OK
\* response with a JSON body is returned, and no endpoint is contacted after
\* it; the call fails only after all three have failed.
C17_FirstJsonResponseReturned ==
    /\ contactsInOrder
    /\ failsOnlyAfterAll
    /\ \A k \in 1..Len(contacts) :
          IF contacts[k].kind = "json"
          THEN k = Len(contacts) /\ callOutcome = "returned"
          ELSE k < Len(contacts) \/ callOutcome \in {"pending", "threw"}

\* a call has returned the answer of the third endpoint after a status that
\* was not OK and a timeout
C17_ReturnedAfterFailover ==
    /\ callOutcome = "returned"
    /\ Len(contacts) = 3
    /\ contacts[1].kind = "status"
    /\ contacts[2].kind = "timeout"
    /\ contacts[3].kind = "json"

\* C18: after a failed Nominatim request for a variant (a status that is not
\* OK, a network error, the abort after 20 s) the next variant is requested,
\* and the load fails on Nominatim only when every variant has been tried.
C18_NextVariantAfterNominatimFailure ==
    /\ \A k \in 1..Len(nominatimLog) :
          (nominatimLog[k] # "geo" /\ k < Len(variants)) =>
              \/ Len(nominatimLog) > k
              \/ loadPc = "nominatim" /\ variantIndex = k + 1
    /\ (loadResult.status = "failed" /\ nominatimLog # << >>
           /\ nominatimLog[Len(nominatimLog)] # "geo") =>
          Len(nominatimLog) = Len(variants)

allOverpassCallsFailed ==
    /\ loadPc = "done"
    /\ variants # << >>
    /\ ~anyOverpassOk

\* C19: a load whose Overpass calls have all failed on all three endpoints
\* fails with an error that reports the Overpass failure and names the hosts
\* with their status or reason.
C19_OverpassFailureReported ==
    allOverpassCallsFailed =>
        /\ loadResult.status = "failed"
        /\ loadResult.message[1] = "All Overpass endpoints failed"
        /\ \A e \in 1..Len(OVERPASS_ENDPOINTS) :
              \E k \in 2..Len(loadResult.message) :
                  loadResult.message[k][1] = OVERPASS_ENDPOINTS[e]


-----------------------------------------------------------------------------
(* The page (src/app/layout.tsx): its handlers over the planner state, the   *)
(* suggestions, the active route and the status message.  A handler that     *)
(* awaits (a city load, a file read) is split at the await: it reads the     *)
(* planner state of the render it was created in, kept in pending.streets,   *)
(* while the functional updates read the current state.  One awaiting        *)
(* handler is in flight at a time.  generateCoverageRoute calls the planner  *)
(* synchronously: the planner's steps run with no handler in between.        *)

renamed(street, chars) == [street EXCEPT !.name = chars]

\* street data an OSM load or a street file can deliver: segments of the
\* catalogue under names of the dataset functions
MainStreet == renamed(Catalogue[1], << "A", "a" >>)
LoopRoad == renamed(Catalogue[2], << "a", " ", "a" >>)
SpurCourt == renamed(Catalogue[3], << "a", "A", "." >>)
LongAvenue == renamed(Catalogue[4], << "a", "a" >>)
NearLane == renamed(Catalogue[5], << "A" >>)
CircleDrive == renamed(Catalogue[6], << "a", "." >>)
SideStreet == renamed(Catalogue[8], << "a" >>)

\* a court 200 m south of B, the mirror image of the court to C
SouthCourt ==
    Street("bs", << "a", "A" >>, << Pt(0, 500), Pt(0 - 200, 500) >>,
           OsmNode(2), OsmNode(8), "osm")

TownBounds == [isNull |-> FALSE, south |-> 0, north |-> 300, west |-> 400, east |-> 700]

\* what loadStreetsFromOSM resolves or rejects with
LoadOutcomes ==
    { LoadFailed("OSM endpoints unavailable or no streets found for this city"),
      LoadReturned(<< MainStreet, SpurCourt, CircleDrive >>, "OpenStreetMap", Null),
      LoadReturned(<< MainStreet, SpurCourt, SouthCourt >>, "OpenStreetMap", Null),
      LoadReturned(<< MainStreet, LoopRoad, SpurCourt >>, "OpenStreetMap", TownBounds) }

Thrown == [thrown |-> TRUE, value |-> << >>]
Parsed(v) == [thrown |-> FALSE, value |-> v]

\* what parseStreetDataset returns or throws
StreetFileOutcomes ==
    { Thrown, Parsed(<< >>),
      Parsed(<< LongAvenue, NearLane, renamed(Catalogue[4], << "a", "a", "." >>) >>),
      Parsed(<< SideStreet, MainStreet >>) }

\* the number of points parseActivityPoints returns, or that it throws
ActivityFileOutcomes ==
    { [thrown |-> TRUE, points |-> 0], [thrown |-> FALSE, points |-> 1],
      [thrown |-> FALSE, points |-> 2] }

TargetMiles == {0, 1}

\* targetMiles * 1.60934, in metres
targetKmOf(miles) == (miles * 160934) \div 100

setStatus(tone, text) == [tone |-> tone, text |-> text]

pageState == << planner.streets, planner.cityBounds, suggestions >>

\* the handler that ended, and the page it found when it did not succeed
Event(handler, outcome) ==
    [handler |-> handler, outcome |-> outcome,
     before |-> IF outcome = "ok" THEN << >> ELSE pageState]

completedNamesOf(streetList) ==
    { normalizeStreetName(streetList[i].name) :
        i \in { j \in 1..Len(streetList) : streetList[j].completed } }

\* the merged list of replaceStreetData
mergedStreets(current, incoming) ==
    dedupeByName([i \in 1..Len(incoming) |->
        [incoming[i] EXCEPT !.completed =
            normalizeStreetName(incoming[i].name) \in completedNamesOf(current)]])

replaceStreetData(current, incoming, sourceLabel, bounds) ==
    /\ planner' = [planner EXCEPT !.streets = mergedStreets(current, incoming),
                                  !.cityBounds = bounds]
    /\ suggestions' = << >>
    /\ activeRouteId' = "null"
    /\ message' = setStatus("success", "Loaded street segments")

markCompleted(streetList, ids, completed) ==
    [i \in 1..Len(streetList) |->
        IF streetList[i].id \in ids
        THEN [streetList[i] EXCEPT !.completed = completed]
        ELSE streetList[i]]

streetIdsOf(streetList) == { streetList[i].id : i \in 1..Len(streetList) }

noHandlerRuns == pc = "idle"

LoadCityFromOSMBegins ==
    /\ noHandlerRuns
    /\ ~loadingCity
    /\ pending = NoPending
    /\ \E cityQuery \in { << >>, << " " >>, << "a" >> } :
         IF trim(cityQuery) = << >>
         THEN /\ message' = setStatus("error", "Enter a city query first")
              /\ lastEvent' = Event("loadCityFromOSM", "failed")
              /\ UNCHANGED << loadingCity, pending >>
         ELSE /\ loadingCity' = TRUE
              /\ message' = setStatus("info", "Loading OSM streets")
              /\ pending' = [handler |-> "loadCityFromOSM", streets |-> planner.streets]
              /\ UNCHANGED lastEvent
    /\ UNCHANGED << planner, suggestions, activeRouteId, plannerVars, restOfApp >>

LoadCityFromOSMEnds ==
    /\ noHandlerRuns
    /\ pending.handler = "loadCityFromOSM"
    /\ \E loaded \in LoadOutcomes :
         IF loaded.status = "failed"
         THEN /\ message' = setStatus("error", "Could not load city from OSM")
              /\ lastEvent' = Event("loadCityFromOSM", "failed")
              /\ UNCHANGED << planner, suggestions, activeRouteId >>
         ELSE /\ replaceStreetData(pending.streets, loaded.streets, loaded.sourceLabel,
                                   loaded.cityBounds)
              /\ lastEvent' = Event("loadCityFromOSM", "ok")
    /\ loadingCity' = FALSE
    /\ pending' = NoPending
    /\ UNCHANGED << plannerVars, restOfApp >>

ImportStreetFileBegins ==
    /\ noHandlerRuns
    /\ pending = NoPending
    /\ pending' = [handler |-> "importStreetFile", streets |-> planner.streets]
    /\ UNCHANGED << planner, suggestions, activeRouteId, message, loadingCity, lastEvent,
                    plannerVars, restOfApp >>

ImportStreetFileEnds ==
    /\ noHandlerRuns
    /\ pending.handler = "importStreetFile"
    /\ \E file \in StreetFileOutcomes :
         IF file.thrown
         THEN /\ message' = setStatus("error", "Street import failed")
              /\ lastEvent' = Event("importStreetFile", "failed")
              /\ UNCHANGED << planner, suggestions, activeRouteId >>
         ELSE IF Len(file.value) = 0
         THEN /\ message' = setStatus("error", "No valid streets found in the imported file.")
              /\ lastEvent' = Event("importStreetFile", "failed")
              /\ UNCHANGED << planner, suggestions, activeRouteId >>
         ELSE /\ replaceStreetData(pending.streets, file.value, "file", Null)
              /\ lastEvent' = Event("importStreetFile", "ok")
    /\ pending' = NoPending
    /\ UNCHANGED << loadingCity, plannerVars, restOfApp >>

ImportActivityFileBegins ==
    /\ noHandlerRuns
    /\ pending = NoPending
    /\ IF Len(planner.streets) = 0
       THEN /\ message' = setStatus("error", "Load streets first, then import activity files.")
            /\ lastEvent' = Event("importActivityFile", "failed")
            /\ UNCHANGED pending
       ELSE /\ pending' = [handler |-> "importActivityFile", streets |-> planner.streets]
            /\ UNCHANGED << message, lastEvent >>
    /\ UNCHANGED << planner, suggestions, activeRouteId, loadingCity, plannerVars, restOfApp >>

\* matchActivityToStreets returns ids of the streets it was given; which of
\* them depends on the file, so every set of them is tried
ImportActivityFileEnds ==
    /\ noHandlerRuns
    /\ pending.handler = "importActivityFile"
    /\ \E file \in ActivityFileOutcomes :
         IF file.thrown
         THEN /\ message' = setStatus("error", "Activity import failed")
              /\ lastEvent' = Event("importActivityFile", "failed")
              /\ UNCHANGED << planner, suggestions, activeRouteId >>
         ELSE IF file.points < 2
         THEN /\ message' = setStatus("error", "Could not parse route points from that activity file.")
              /\ lastEvent' = Event("importActivityFile", "failed")
              /\ UNCHANGED << planner, suggestions, activeRouteId >>
         ELSE \E matched \in SUBSET streetIdsOf(pending.streets) :
                IF matched = {}
                THEN /\ message' = setStatus("info", "Imported activity but no streets matched.")
                     /\ lastEvent' = Event("importActivityFile", "unmatched")
                     /\ UNCHANGED << planner, suggestions, activeRouteId >>
                ELSE /\ planner' = [planner EXCEPT
                                      !.streets = markCompleted(planner.streets, matched, TRUE)]
                     /\ suggestions' = << >>
                     /\ activeRouteId' = "null"
                     /\ message' = setStatus("success", "Matched street segments")
                     /\ lastEvent' = Event("importActivityFile", "ok")
    /\ pending' = NoPending
    /\ UNCHANGED << loadingCity, plannerVars, restOfApp >>

SetManualCompletion ==
    /\ noHandlerRuns
    /\ \E streetId \in streetIdsOf(planner.streets), completed \in BOOLEAN :
         planner' = [planner EXCEPT
                       !.streets = markCompleted(planner.streets, {streetId}, completed)]
    /\ suggestions' = << >>
    /\ activeRouteId' = "null"
    /\ lastEvent' = Event("setManualCompletion", "ok")
    /\ UNCHANGED << message, loadingCity, pending, plannerVars, restOfApp >>

ClearCompletion ==
    /\ noHandlerRuns
    /\ planner' = [planner EXCEPT
                     !.streets = markCompleted(planner.streets, streetIdsOf(planner.streets),
                                               FALSE)]
    /\ suggestions' = << >>
    /\ activeRouteId' = "null"
    /\ message' = setStatus("info", "Reset all completion marks.")
    /\ lastEvent' = Event("clearCompletion", "ok")
    /\ UNCHANGED << loadingCity, pending, plannerVars, restOfApp >>

MarkSuggestedAsDone ==
    /\ noHandlerRuns
    /\ \E i \in 1..Len(suggestions) :
         planner' = [planner EXCEPT
                       !.streets = markCompleted(planner.streets,
                                                 Range(suggestions[i].streetIds), TRUE)]
    /\ message' = setStatus("success", "Marked route streets as completed.")
    /\ lastEvent' = Event("markSuggestedAsDone", "ok")
    /\ UNCHANGED << suggestions, activeRouteId, loadingCity, pending, plannerVars, restOfApp >>

\* the locals of buildEfficientCoverageRoute at its entry
plannerEntered ==
    /\ pc' = "start"
    /\ graph' = EmptyGraph
    /\ startNodeId' = NullNodeId
    /\ completedByStreetId' = EmptyMap
    /\ dijkstraCache' = EmptyMap
    /\ dijkstraRuns' = 0
    /\ routePoints' = << >>
    /\ coveredStreetIds' = << >>
    /\ coveredStreetNames' = << >>
    /\ rewardedStreetIds' = {}
    /\ coveredNodes' = {}
    /\ traversedEdgeCount' = EmptyMap
    /\ currentNodeId' = NullNodeId
    /\ distanceKm' = 0
    /\ iterations' = 0
    /\ mainSite' = "head"
    /\ spurCaller' = "main"
    /\ maxSweeps' = 0
    /\ spurSweeps' = 0
    /\ spurSteps' = << >>
    /\ anchorNodeId' = NullNodeId
    /\ maxSteps' = 0
    /\ stepCount' = 0
    /\ connectorSteps' = << >>
    /\ targetStep' = NoStep
    /\ lastApplied' = NoApplied
    /\ moveStartKm' = 0
    /\ result' = Null

\* the call is over and its locals are gone
plannerLeft ==
    /\ streets' = << >>
    /\ home' = Pt(0, 0)
    /\ targetKm' = 0
    /\ cityBounds' = Null
    /\ pc' = "idle"
    /\ graph' = EmptyGraph
    /\ startNodeId' = NullNodeId
    /\ completedByStreetId' = EmptyMap
    /\ dijkstraCache' = EmptyMap
    /\ dijkstraRuns' = 0
    /\ routePoints' = << >>
    /\ coveredStreetIds' = << >>
    /\ coveredStreetNames' = << >>
    /\ rewardedStreetIds' = {}
    /\ coveredNodes' = {}
    /\ traversedEdgeCount' = EmptyMap
    /\ currentNodeId' = NullNodeId
    /\ distanceKm' = 0
    /\ iterations' = 0
    /\ mainSite' = "head"
    /\ spurCaller' = "main"
    /\ maxSweeps' = 0
    /\ spurSweeps' = 0
    /\ spurSteps' = << >>
    /\ anchorNodeId' = NullNodeId
    /\ maxSteps' = 0
    /\ stepCount' = 0
    /\ connectorSteps' = << >>
    /\ targetStep' = NoStep
    /\ lastApplied' = NoApplied
    /\ moveStartKm' = 0
    /\ result' = Null

\* generateCoverageRoute up to its call of buildEfficientCoverageRoute
GenerateCoverageRoute ==
    /\ noHandlerRuns
    /\ \E targetMiles \in TargetMiles :
         IF Len(planner.streets) = 0
         THEN /\ message' = setStatus("error", "Load street data before generating a route.")
              /\ lastEvent' = Event("generateCoverageRoute", "failed")
              /\ UNCHANGED plannerVars
         ELSE IF targetKmOf(targetMiles) <= 0
         THEN /\ message' = setStatus("error", "Set a valid target mileage.")
              /\ lastEvent' = Event("generateCoverageRoute", "failed")
              /\ UNCHANGED plannerVars
         ELSE /\ streets' = planner.streets
              /\ home' = planner.home
              /\ targetKm' = targetKmOf(targetMiles)
              /\ cityBounds' = planner.cityBounds
              /\ plannerEntered
              /\ lastEvent' = Event("generateCoverageRoute", "called")
              /\ UNCHANGED message
    /\ UNCHANGED << planner, suggestions, activeRouteId, loadingCity, pending, restOfApp >>

\* if (!route)
routeIsNeverMissing(route) == FALSE

routeIsMissing(route) == route = Null

\* generateCoverageRoute from the return of buildEfficientCoverageRoute
RouteReturned ==
    /\ pc = "done"
    /\ IF routeIsMissing(result)
       THEN /\ message' = setStatus("error", "Could not generate a route for this area.")
            /\ UNCHANGED << suggestions, activeRouteId >>
       ELSE /\ suggestions' = << result >>
            /\ activeRouteId' = "route"
            /\ message' = setStatus("success", "Generated efficient route")
    /\ lastEvent' = IF result = Null THEN [lastEvent EXCEPT !.outcome = "failed"]
                     ELSE Event("generateCoverageRoute", "ok")
    /\ plannerLeft
    /\ UNCHANGED << planner, loadingCity, pending, restOfApp >>

AppInit ==
    /\ plannerIdle
    /\ restIdleOfApp
    /\ appIdle

AppNext ==
    \/ LoadCityFromOSMBegins
    \/ LoadCityFromOSMEnds
    \/ ImportStreetFileBegins
    \/ ImportStreetFileEnds
    \/ ImportActivityFileBegins
    \/ ImportActivityFileEnds
    \/ SetManualCompletion
    \/ ClearCompletion
    \/ MarkSuggestedAsDone
    \/ GenerateCoverageRoute
    \/ Next
    \/ RouteReturned

AppSpec == AppInit /\ [][AppNext]_vars


someStreetCompleted == \E i \in 1..Len(planner.streets) : planner.streets[i].completed

plannerRuns == pc # "idle"

\* C20: when route generation returns null, an OSM city load fails or a street
\* or activity import fails, the street list with every completed flag, the
\* city bounds and the suggestions are what they were when the handler found
\* the failure (for route generation: what they were when the planner was
\* called); and while buildEfficientCoverageRoute runs and when it has
\* returned, with a route or with null, the list it was given is still the
\* street list of the page.
C20_FailureLeavesStreetsAndSuggestions ==
    /\ lastEvent.outcome = "failed" => pageState = lastEvent.before
    /\ plannerRuns =>
         /\ streets = planner.streets
         /\ lastEvent.handler = "generateCoverageRoute"
         /\ pageState = lastEvent.before

\* C20, its case: the planner returned null to generateCoverageRoute on a page
\* that has completed streets and a suggestion
C20_NullRouteHandled ==
    /\ lastEvent.handler = "generateCoverageRoute"
    /\ lastEvent.outcome = "failed"
    /\ message.text = "Could not generate a route for this area."
    /\ someStreetCompleted
    /\ suggestions # << >>

\* the OSM city load in flight completes with street data
loadCompletes ==
    /\ pending.handler = "loadCityFromOSM"
    /\ pending' = NoPending
    /\ lastEvent'.handler = "loadCityFromOSM"
    /\ lastEvent'.outcome = "ok"

\* C30: when an OSM city load completes, every street of the newly loaded list
\* whose normalized name is the name of a street that is completed on the page
\* at that moment (marks recorded while the load was in flight included) is
\* completed in the new list.
C30_MarksDuringLoadCarriedOver ==
    [][loadCompletes =>
         \A i \in 1..Len(planner'.streets) :
            normalizeStreetName(planner'.streets[i].name) \in completedNamesOf(planner.streets)
               => planner'.streets[i].completed]_vars

-----------------------------------------------------------------------------
(* Further properties of the planner *)

routeReturned == pc = "done" /\ ~result.isNull

\* C29: every route returned by buildEfficientCoverageRoute traverses at least
\* one street that was uncompleted in the input: rewardedStreetIds is not
\* empty at the return of a route.
C29_ReturnedRouteRewardsAStreet == routeReturned => rewardedStreetIds # {}

\* C28: within one planning request Dijkstra has run exactly once for every
\* source in the cache and for no other; every cached result equals a fresh
\* runDijkstra on the graph of the request, which is the graph built from the
\* request's candidates from the moment it is built; and a request starts
\* with an empty cache, whatever an earlier request has cached.
C28_DijkstraCachedPerRequest ==
    /\ dijkstraRuns = Cardinality(DOMAIN dijkstraCache)
    /\ \A source \in DOMAIN dijkstraCache :
          dijkstraCache[source] = runDijkstra(graph, source)
    /\ graph # EmptyGraph =>
          graph = buildStreetGraph(candidatesOf(streets, home, targetKm, cityBounds))
    /\ pc \in {"idle", "start"} => dijkstraCache = EmptyMap /\ dijkstraRuns = 0

\* C28, its case: a request that has cached two sources looks up a source
\* that is cached, after an earlier request has ended
C28_CachedSourceLookedUp ==
    /\ pc = "move"
    /\ distanceKm * 10 < hardMaxKm
    /\ currentNodeId \in DOMAIN dijkstraCache
    /\ Cardinality(DOMAIN dijkstraCache) >= 2
    /\ lastEvent.handler = "generateCoverageRoute"
    /\ suggestions # << >>

\* the street list has not changed since the route in suggestions was generated:
\* every handler that changes the streets clears the suggestions or sets
\* another status message
sameRequestAgain ==
    /\ pc = "done"
    /\ suggestions # << >>
    /\ message.text = "Generated efficient route"

\* the candidates findBestCoverageMove enumerates in the current state
movesEnumerated ==
    coverageMoveCandidates(graph, currentNodeId, normalizedTargetKm, distanceKm, hardMaxKm,
                           dijkstraCache, completedByStreetId, rewardedStreetIds,
                           coveredStreetIds, coveredNodes, traversedEdgeCount)

isFirstOfTheBest(cands, i) ==
    /\ cands[i].valid
    /\ \A j \in DOMAIN cands :
          cands[j].valid =>
             /\ cands[j].score <= cands[i].score
             /\ j < i => cands[j].score < cands[i].score

moveChosen == pc = "move" /\ pc' \in {"conn", "target"}

hasEqualBestMoves ==
    \E i, j \in DOMAIN movesEnumerated :
       /\ i < j
       /\ isFirstOfTheBest(movesEnumerated, i)
       /\ movesEnumerated[j].valid
       /\ movesEnumerated[j].score = movesEnumerated[i].score

localExtensionSelectable ==
    LET localStep == findBestLocalExtension(graph, currentNodeId, normalizedTargetKm,
                         distanceKm, hardMaxKm, completedByStreetId, traversedEdgeCount,
                         rewardedStreetIds, coveredNodes)
    IN  localStep.valid /\ stepApplies(localStep.step)

\* the outer iteration has found no global coverage move
noGlobalMove == pc = "local"

localExtensionTaken == pc' = "loop" /\ lastApplied'.kind = "local" /\ routePoints' # routePoints

loopEndsWithoutMove == pc' = "finish" /\ UNCHANGED walkVars

\* 72 % of the target walked and a street rewarded
longEnoughToStop == distanceKm * 100 >= normalizedTargetKm * 72 /\ rewardedStreetIds # {}

\* C23, as stated: whenever an outer iteration finds no global coverage move
\* the planner takes the local extension step if one is selectable, and the
\* loop ends for lack of moves only when none is.
C23_LocalExtensionBeforeGivingUp ==
    [][noGlobalMove =>
          /\ localExtensionSelectable => localExtensionTaken
          /\ ~localExtensionSelectable => loopEndsWithoutMove]_vars

\* C23, amended: an outer iteration that finds no global coverage move ends
\* the loop at once when 72 % of the target is walked and a street is
\* rewarded; otherwise it takes the local extension step if one is selectable
\* and ends the loop when none is.
C23_LocalExtensionUnlessLongEnough ==
    [][noGlobalMove =>
          /\ longEnoughToStop => loopEndsWithoutMove
          /\ (~longEnoughToStop /\ localExtensionSelectable) => localExtensionTaken
          /\ (~longEnoughToStop /\ ~localExtensionSelectable) => loopEndsWithoutMove]_vars

\* C23, its case: no global move is found, the walk is long enough to stop and
\* a local extension is selectable
C23_StopsBeforeLocalExtension ==
    noGlobalMove /\ longEnoughToStop /\ localExtensionSelectable

edgeKmOf(step) == graph.edges[step.edgeId].distanceKm

RECURSIVE stepsKm(_, _)
stepsKm(steps, n) == IF n = 0 THEN 0 ELSE edgeKmOf(steps[n]) + stepsKm(steps, n - 1)

\* steps is a dead-end chain from the node at walked out and back
isDeadEndSpurFrom(steps, at) ==
    LET n == Len(steps) \div 2
    IN  /\ Len(steps) = 2 * n
        /\ n >= 1
        /\ n <= 12
        /\ steps[1].from = at
        /\ \A i \in 1..n :
              /\ steps[i].edgeId \in DOMAIN graph.edges
              /\ ~isCompleted(completedByStreetId, graph.edges[steps[i].edgeId].streetId)
              /\ graph.edges[steps[i].edgeId].streetId \notin rewardedStreetIds
              /\ steps[2 * n + 1 - i] = Step(steps[i].edgeId, steps[i].to, steps[i].from)
        /\ \A i \in 1..(n - 1) :
              /\ steps[i + 1].from = steps[i].to
              /\ degreeOf(graph, steps[i].to) = 2
        /\ degreeOf(graph, steps[n].to) = 1
        /\ stepsKm(steps, 2 * n) = 2 * stepsKm(steps, n)

spurChosen == pc = "spur" /\ pc' = "spurWalk"

spurStepDue == pc = "spurWalk"

isPathABC ==
    /\ Len(streets) = 2
    /\ streets[1] = Catalogue[1]
    /\ streets[2] = Catalogue[3]
    /\ home = Pt(0, 0)
    /\ targetKm = 1500
    /\ cityBounds = Null

branchStepTaken == pc = "branch" /\ pc' # "branchDone"

branchSweepRuns == pc \in {"branch", "branchDone"}

-----------------------------------------------------------------------------
(* routeToGPX and parseActivityPoints.  A coordinate is a whole number of     *)
(* tenths of a microdegree; the text of a number is a sequence of characters. *)
(* Of the GPX document the model keeps the trkpt elements in document order,  *)
(* each with its lat and lon attribute texts.                                 *)

MaxGpxPoints == 3

Digits == << "0", "1", "2", "3", "4", "5", "6", "7", "8", "9" >>

digitOf(d) == Digits[d + 1]

valueOfDigit(c) == CHOOSE d \in 0..9 : Digits[d + 1] = c

RECURSIVE digitsOf(_)
digitsOf(n) == IF n < 10 THEN << digitOf(n) >> ELSE Append(digitsOf(n \div 10), digitOf(n % 10))

RECURSIVE paddedDigits(_, _)
paddedDigits(n, width) ==
    IF width = 0 THEN << >> ELSE Append(paddedDigits(n \div 10, width - 1), digitOf(n % 10))

\* Number.prototype.toFixed(6): the nearest multiple of 0.000001, a minus sign
\* for every negative number, also one that rounds to zero
toFixed6(v) ==
    LET n == (Abs(v) + 5) \div 10
    IN  (IF v < 0 THEN << "-" >> ELSE << >>)
          \o digitsOf(n \div 1000000) \o << "." >> \o paddedDigits(n % 1000000, 6)

RECURSIVE digitsValue(_, _, _)
digitsValue(chars, i, acc) ==
    IF i > Len(chars) \/ chars[i] \notin Range(Digits) THEN [value |-> acc, next |-> i]
    ELSE digitsValue(chars, i + 1, acc * 10 + valueOfDigit(chars[i]))

RECURSIVE powerOfTen(_)
powerOfTen(k) == IF k = 0 THEN 1 ELSE 10 * powerOfTen(k - 1)

NotANumber == [isNull |-> TRUE, value |-> 0]

\* Number.parseFloat on a decimal text of at most 7 places: sign, digits,
\* point, digits; NaN without a digit
parseFloat(chars) ==
    LET negative == Len(chars) > 0 /\ chars[1] = "-"
        first == IF negative THEN 2 ELSE 1
        whole == digitsValue(chars, first, 0)
        hasPoint == whole.next <= Len(chars) /\ chars[whole.next] = "."
        fraction == IF hasPoint THEN digitsValue(chars, whole.next + 1, 0)
                    ELSE [value |-> 0, next |-> whole.next]
        places == IF hasPoint THEN fraction.next - whole.next - 1 ELSE 0
        magnitude == whole.value * 10000000 + fraction.value * powerOfTen(7 - places)
    IN  IF whole.next = first /\ places = 0 THEN NotANumber
        ELSE [isNull |-> FALSE, value |-> IF negative THEN 0 - magnitude ELSE magnitude]

\* parseCoordinate of an attribute text
parseCoordinate(chars) == parseFloat(chars)

\* the trkpt elements routeToGPX writes
routeToGPX(route) ==
    [i \in 1..Len(route.points) |->
        [lat |-> toFixed6(route.points[i].lat), lon |-> toFixed6(route.points[i].lon)]]

\* the .gpx branch of parseActivityPoints: the trkpt elements whose lat and lon
\* both parse, returned when there are at least two of them
gpxPointsOf(trkpts) ==
    LET read == [i \in 1..Len(trkpts) |->
                    [lat |-> parseCoordinate(trkpts[i].lat),
                     lon |-> parseCoordinate(trkpts[i].lon)]]
        kept == SelectSeq(read, LAMBDA p : ~p.lat.isNull /\ ~p.lon.isNull)
    IN  [i \in 1..Len(kept) |-> Pt(kept[i].lat.value, kept[i].lon.value)]

parseActivityPoints(trkpts) ==
    IF Len(gpxPointsOf(trkpts)) > 1 THEN gpxPointsOf(trkpts) ELSE << >>

\* routes along one meridian, around the equator and up to 12.3456789 degrees;
\* a coordinate whose seventh decimal is a lone 5 is left out, toFixed decides
\* it on the binary expansion of the number
GpxLatitudes == { 0 - 14, 0 - 4, 0, 4, 136, 10004, 123456789 }
GpxLongitudes == { 0 - 26 }

GpxRoutes ==
    { [points |-> points, distanceKm |-> polylineDistanceKm(points)] :
        points \in UNION { [1..n -> { Pt(lat, lon) : lat \in GpxLatitudes, lon \in GpxLongitudes }] :
                             n \in 2..MaxGpxPoints } }

GpxInit ==
    /\ plannerIdle
    /\ restIdleOfGpx
    /\ gpxRoute \in GpxRoutes
    /\ gpxText = NotReturned
    /\ reparsed = NotReturned

RouteToGPX ==
    /\ ~gpxText.returned
    /\ gpxText' = Returned(routeToGPX(gpxRoute))
    /\ UNCHANGED << gpxRoute, reparsed, plannerVars, restOfGpx >>

ParseActivityPoints ==
    /\ gpxText.returned
    /\ ~reparsed.returned
    /\ reparsed' = Returned(parseActivityPoints(gpxText.value))
    /\ UNCHANGED << gpxRoute, gpxText, plannerVars, restOfGpx >>

GpxNext == RouteToGPX \/ ParseActivityPoints

GpxSpec == GpxInit /\ [][GpxNext]_vars

\* v rounded to 6 decimals, in tenths of a microdegree
roundedTo6(v) == IF v >= 0 THEN ((v + 5) \div 10) * 10 ELSE 0 - (((0 - v) + 5) \div 10) * 10

\* C22: the points parsed from the GPX text of a route of at least two points
\* are as many as the route's points, in the same order, each the route's
\* point rounded to 6 decimals, and their length is within 0.1 % of the
\* route's distance.
C22_GpxRoundTripKeepsLength ==
    reparsed.returned =>
        /\ Len(reparsed.value) = Len(gpxRoute.points)
        /\ \A i \in 1..Len(gpxRoute.points) :
              reparsed.value[i] = Pt(roundedTo6(gpxRoute.points[i].lat),
                                     roundedTo6(gpxRoute.points[i].lon))
        /\ Abs(polylineDistanceKm(reparsed.value) - gpxRoute.distanceKm)
              <= gpxRoute.distanceKm \div 1000

-----------------------------------------------------------------------------
(* eulerizeEdgeSet and buildEulerTraversal.  A Map is the sequence of its    *)
(* keys in insertion order and the function of its values; index i of an     *)
(* array of the source is index i + 1 of the sequence, so a token id and a   *)
(* cursor of the model are one more than the source's.                       *)

\* Map.set and Map.get with the ?? 0 of the source
multisetSet(m, edgeId, count) ==
    [order |-> SetAdd(m.order, edgeId), count |-> (edgeId :> count) @@ m.count]

multisetGet(m, edgeId) == MapGet(m.count, edgeId, 0)

\* whether an entry of the multiset is passed over (source line 2220)
entrySkipped(m, g, edgeId) == edgeId \notin DOMAIN g.edges \/ m.count[edgeId] <= 0

\* the keys of the degree Map: the nodes of the graph, then the ends of counted edges
RECURSIVE degreeKeys(_, _, _)
degreeKeys(m, g, i) ==
    IF i = 0 THEN g.nodeOrder
    ELSE IF entrySkipped(m, g, m.order[i]) THEN degreeKeys(m, g, i - 1)
    ELSE SetAdd(SetAdd(degreeKeys(m, g, i - 1), g.edges[m.order[i]].from),
                g.edges[m.order[i]].to)

\* the value of the degree Map at a node after the first i entries
RECURSIVE degreeFrom(_, _, _, _)
degreeFrom(m, g, nodeId, i) ==
    IF i = 0 THEN 0
    ELSE IF entrySkipped(m, g, m.order[i]) THEN degreeFrom(m, g, nodeId, i - 1)
    ELSE degreeFrom(m, g, nodeId, i - 1)
           + (IF g.edges[m.order[i]].from = nodeId THEN m.count[m.order[i]] ELSE 0)
           + (IF g.edges[m.order[i]].to = nodeId THEN m.count[m.order[i]] ELSE 0)

oddDegreeNodes(m, g) ==
    SelectSeq(degreeKeys(m, g, Len(m.order)),
              LAMBDA nodeId : degreeFrom(m, g, nodeId, Len(m.order)) % 2 = 1)

\* every edge id of the set once (source lines 2237-2240)
RECURSIVE multisetOfEdgeIds(_, _)
multisetOfEdgeIds(edgeIds, i) ==
    IF i = 0 THEN EmptyMultiset
    ELSE multisetSet(multisetOfEdgeIds(edgeIds, i - 1), edgeIds[i], 1)

\* no partner found: bestIndex 0 is the source's -1
NoPartner == [bestIndex |-> 0, bestDistance |-> POSITIVE_INFINITY, bestPath |-> << >>]

\* the for-loop over the odd nodes left (source lines 2254-2266)
RECURSIVE nearestPartner(_, _, _, _, _, _)
nearestPartner(g, cache, nodeA, odd, i, found) ==
    IF i > Len(odd) THEN found
    ELSE
    LET path == shortestPathEdges(g, cache, nodeA, odd[i])
    IN  IF Len(path.edgeIds) = 0 THEN nearestPartner(g, cache, nodeA, odd, i + 1, found)
        ELSE IF path.distanceKm < found.bestDistance
        THEN nearestPartner(g, cache, nodeA, odd, i + 1,
                            [ bestIndex |-> i, bestDistance |-> path.distanceKm,
                              bestPath |-> path.edgeIds ])
        ELSE nearestPartner(g, cache, nodeA, odd, i + 1, found)

\* a pairing that leaves the multiset as it is
addNoEdges(m, path) == m

\* one more of every edge of the path (source lines 2274-2276)
RECURSIVE addPathEdges(_, _)
addPathEdges(m, path) ==
    IF path = << >> THEN m
    ELSE addPathEdges(multisetSet(m, Head(path), multisetGet(m, Head(path)) + 1), Tail(path))

\* Array.splice(index, 1)
spliceOne(seq, index) == SubSeq(seq, 1, index - 1) \o SubSeq(seq, index + 1, Len(seq))

\* the tokens of the multiset (source lines 2288-2301)
RECURSIVE tokensOf(_, _, _)
tokensOf(m, g, i) ==
    IF i = 0 THEN << >>
    ELSE IF m.order[i] \notin DOMAIN g.edges THEN tokensOf(m, g, i - 1)
    ELSE tokensOf(m, g, i - 1)
           \o [k \in 1..m.count[m.order[i]] |->
                 Step(m.order[i], g.edges[m.order[i]].from, g.edges[m.order[i]].to)]

\* the token ids at the nodes (source lines 2307-2318)
RECURSIVE tokenAdjacencyOf(_, _)
tokenAdjacencyOf(toks, i) ==
    IF i = 0 THEN EmptyMap
    ELSE
    LET a1 == MapSetIfAbsent(tokenAdjacencyOf(toks, i - 1), toks[i].from, << >>)
        a2 == MapSetIfAbsent(a1, toks[i].to, << >>)
        a3 == [a2 EXCEPT ![toks[i].from] = Append(@, i)]
    IN  [a3 EXCEPT ![toks[i].to] = Append(@, i)]

\* the while-loop of takeToken
RECURSIVE skipUsed(_, _, _)
skipUsed(list, usedFlags, index) ==
    IF index <= Len(list) /\ usedFlags[list[index]]
    THEN skipUsed(list, usedFlags, index + 1)
    ELSE index

\* takeToken: the cursor it stores and the token it returns, 0 for null
takeToken(nodeId) ==
    LET list == MapGet(tokenAdjacency, nodeId, << >>)
        index == skipUsed(list, used, MapGet(tokenCursor, nodeId, 1))
    IN  [index |-> index, tokenId |-> IF index > Len(list) THEN 0 ELSE list[index]]

\* the far end of a token taken at a node (source line 2349)
neighborOf(token, nodeId) == IF token.from = nodeId THEN token.to ELSE token.from

StackEntry(nodeId, hasIncoming, incoming) ==
    [nodeId |-> nodeId, hasIncoming |-> hasIncoming, incoming |-> incoming]

\* a trail returned in the order of the pops
trailInPopOrder(rev) == rev

\* the returned trail (source line 2366)
trailOf(rev) == Reverse(rev)

\* the streets of the graphs: A-B, B-C twice, A-K, the circle at C and the stub
\* at A; A-B, B-C twice; A-B and a street apart from it
EulerStreetChoices == { {1, 2, 3, 4, 6, 7}, {1, 2, 3}, {1, 5} }

EulerGraphs == { buildStreetGraph(pickStreets(chosen, {}, 1)) : chosen \in EulerStreetChoices }

RECURSIVE pickEdgeIds(_, _, _)
pickEdgeIds(order, chosen, i) ==
    IF i > Len(order) THEN << >>
    ELSE (IF i \in chosen THEN << order[i] >> ELSE << >>) \o pickEdgeIds(order, chosen, i + 1)

EulerInit ==
    /\ plannerIdle
    /\ restIdleOfEuler
    /\ eulerGraph \in EulerGraphs
    /\ \E chosen \in SUBSET (1..Len(eulerGraph.edgeOrder)) :
          selectedEdgeIds = pickEdgeIds(eulerGraph.edgeOrder, chosen, 1)
    /\ eulerStart \in Range(eulerGraph.nodeOrder)
    /\ eulerPc = "start"
    /\ multiset = EmptyMultiset
    /\ oddNodes = << >>
    /\ eulerCache = EmptyMap
    /\ tokens = << >>
    /\ tokenAdjacency = EmptyMap
    /\ used = << >>
    /\ tokenCursor = EmptyMap
    /\ stack = << >>
    /\ reversed = << >>
    /\ traversal = NotReturned

traversalVars == << tokens, tokenAdjacency, used, tokenCursor, stack, reversed, traversal >>

\* eulerizeEdgeSet up to its while-loop (source lines 2237-2242)
EulerizeBegins ==
    /\ eulerPc = "start"
    /\ multiset' = multisetOfEdgeIds(selectedEdgeIds, Len(selectedEdgeIds))
    /\ oddNodes' = oddDegreeNodes(multiset', eulerGraph)
    /\ eulerPc' = "pair"
    /\ UNCHANGED << eulerGraph, selectedEdgeIds, eulerStart, eulerCache, traversalVars,
                    plannerVars, restOfEuler >>

\* one pass of the while-loop (source lines 2244-2277); without a partner the
\* loop is left with nodeA taken off the list
PairOddNodes ==
    /\ eulerPc = "pair"
    /\ oddNodes # << >>
    /\ LET nodeA == Head(oddNodes)
           rest == Tail(oddNodes)
           found == nearestPartner(eulerGraph, eulerCache, nodeA, rest, 1, NoPartner)
       IN  /\ eulerCache' = IF rest = << >> THEN eulerCache
                            ELSE cacheAfter(eulerCache, eulerGraph, nodeA)
           /\ IF found.bestIndex = 0
              THEN /\ oddNodes' = rest
                   /\ eulerPc' = "eulerized"
                   /\ UNCHANGED multiset
              ELSE /\ oddNodes' = spliceOne(rest, found.bestIndex)
                   /\ multiset' = addPathEdges(multiset, found.bestPath)
                   /\ UNCHANGED eulerPc
    /\ UNCHANGED << eulerGraph, selectedEdgeIds, eulerStart, traversalVars,
                    plannerVars, restOfEuler >>

\* the while-loop ends with the odd list empty and the multiset is returned
EulerizeReturns ==
    /\ eulerPc = "pair"
    /\ oddNodes = << >>
    /\ eulerPc' = "eulerized"
    /\ UNCHANGED << eulerGraph, selectedEdgeIds, eulerStart, multiset, oddNodes, eulerCache,
                    traversalVars, plannerVars, restOfEuler >>

\* buildEulerTraversal on the returned multiset up to its while-loop
\* (source lines 2286-2339)
BuildTraversalBegins ==
    /\ eulerPc = "eulerized"
    /\ tokens' = tokensOf(multiset, eulerGraph, Len(multiset.order))
    /\ IF tokens' = << >>
       THEN /\ traversal' = Returned(<< >>)
            /\ eulerPc' = "walked"
            /\ UNCHANGED << tokenAdjacency, used, tokenCursor, stack, reversed >>
       ELSE /\ tokenAdjacency' = tokenAdjacencyOf(tokens', Len(tokens'))
            /\ used' = [i \in 1..Len(tokens') |-> FALSE]
            /\ tokenCursor' = EmptyMap
            /\ stack' = << StackEntry(eulerStart, FALSE, NoStep) >>
            /\ reversed' = << >>
            /\ eulerPc' = "walk"
            /\ UNCHANGED traversal
    /\ UNCHANGED << eulerGraph, selectedEdgeIds, eulerStart, multiset, oddNodes, eulerCache,
                    plannerVars, restOfEuler >>

\* a pass of the while-loop that takes a token (source lines 2341-2358)
PushToken ==
    /\ eulerPc = "walk"
    /\ stack # << >>
    /\ LET top == stack[Len(stack)]
           taken == takeToken(top.nodeId)
           neighbor == neighborOf(tokens[taken.tokenId], top.nodeId)
       IN  /\ taken.tokenId # 0
           /\ tokenCursor' = (top.nodeId :> taken.index) @@ tokenCursor
           /\ used' = [used EXCEPT ![taken.tokenId] = TRUE]
           /\ stack' = Append(stack,
                          StackEntry(neighbor, TRUE,
                                     Step(tokens[taken.tokenId].edgeId, top.nodeId, neighbor)))
    /\ UNCHANGED << eulerGraph, selectedEdgeIds, eulerStart, eulerPc, multiset, oddNodes,
                    eulerCache, tokens, tokenAdjacency, reversed, traversal,
                    plannerVars, restOfEuler >>

\* a pass of the while-loop that finds no token (source lines 2341-2343, 2360-2363)
PopStack ==
    /\ eulerPc = "walk"
    /\ stack # << >>
    /\ LET top == stack[Len(stack)]
           taken == takeToken(top.nodeId)
       IN  /\ taken.tokenId = 0
           /\ tokenCursor' = (top.nodeId :> taken.index) @@ tokenCursor
           /\ stack' = SubSeq(stack, 1, Len(stack) - 1)
           /\ reversed' = IF top.hasIncoming THEN Append(reversed, top.incoming) ELSE reversed
    /\ UNCHANGED << eulerGraph, selectedEdgeIds, eulerStart, eulerPc, multiset, oddNodes,
                    eulerCache, tokens, tokenAdjacency, used, traversal,
                    plannerVars, restOfEuler >>

\* source line 2366
TraversalReturns ==
    /\ eulerPc = "walk"
    /\ stack = << >>
    /\ traversal' = Returned(trailOf(reversed))
    /\ eulerPc' = "walked"
    /\ UNCHANGED << eulerGraph, selectedEdgeIds, eulerStart, multiset, oddNodes, eulerCache,
                    tokens, tokenAdjacency, used, tokenCursor, stack, reversed,
                    plannerVars, restOfEuler >>

EulerNext ==
    \/ EulerizeBegins
    \/ PairOddNodes
    \/ EulerizeReturns
    \/ BuildTraversalBegins
    \/ PushToken
    \/ PopStack
    \/ TraversalReturns

EulerSpec == EulerInit /\ [][EulerNext]_vars

\* the edges of the graph that end at a node
edgesAt(g, nodeId) ==
    { e \in DOMAIN g.edges : g.edges[e].from = nodeId \/ g.edges[e].to = nodeId }

shortestKm(g, from, to) == labelOf(leastWalkKm(g, from), to)

\* the sum of count[e] * weight[e] over a set of edges
RECURSIVE weightedSum(_, _, _)
weightedSum(ids, count, weight) ==
    IF ids = {} THEN 0
    ELSE LET e == CHOOSE x \in ids : TRUE
         IN  count[e] * weight[e] + weightedSum(ids \ {e}, count, weight)

\* the degree of a node in the multiset, counted with multiplicity
multiplicityDegree(m, g, nodeId) ==
    weightedSum(DOMAIN g.edges,
                [e \in DOMAIN g.edges |-> multisetGet(m, e)],
                [e \in DOMAIN g.edges |->
                   (IF g.edges[e].from = nodeId THEN 1 ELSE 0)
                   + (IF g.edges[e].to = nodeId THEN 1 ELSE 0)])

evenAtEveryNode(m, g) ==
    \A nodeId \in DOMAIN g.nodes : multiplicityDegree(m, g, nodeId) % 2 = 0

\* what a step added to the multiset
addedBy(before, after) ==
    [order |-> after.order,
     count |-> [e \in DOMAIN after.count |-> after.count[e] - multisetGet(before, e)]]

\* the added edges are a shortest path between two nodes: their length is the
\* shortest distance and the two nodes are the only ones of odd degree in them
isShortestPathBetween(added, g, a, b) ==
    /\ \A e \in DOMAIN added.count : added.count[e] >= 0 /\ e \in DOMAIN g.edges
    /\ \E e \in DOMAIN added.count : added.count[e] > 0
    /\ weightedSum(DOMAIN g.edges,
                   [e \in DOMAIN g.edges |-> multisetGet(added, e)],
                   [e \in DOMAIN g.edges |-> g.edges[e].distanceKm]) = shortestKm(g, a, b)
    /\ \A nodeId \in DOMAIN g.nodes :
          (multiplicityDegree(added, g, nodeId) % 2 = 1) <=> nodeId \in {a, b}

pairingStep == eulerPc = "pair" /\ eulerPc' = "pair"

eulerizeReturned == eulerPc \in {"eulerized", "walk", "walked"}

\* C26: in the multiset eulerizeEdgeSet returns every selected edge has
\* multiplicity at least 1 and, when the graph is connected, every node has
\* even degree counted with multiplicity; each pairing step takes the first
\* odd node and one more off the odd list, leaves the rest of the list as it
\* was, and adds the edges of a shortest path between the two to the multiset.
C26_EulerizedIsEvenAndPairsOddNodes ==
    /\ [](eulerizeReturned =>
             /\ \A e \in Range(selectedEdgeIds) : multisetGet(multiset, e) >= 1
             /\ isConnectedGraph(eulerGraph) => evenAtEveryNode(multiset, eulerGraph))
    /\ [][pairingStep =>
             \E j \in 2..Len(oddNodes) :
                /\ oddNodes[j] # oddNodes[1]
                /\ oddNodes' = spliceOne(Tail(oddNodes), j - 1)
                /\ isShortestPathBetween(addedBy(multiset, multiset'), eulerGraph,
                                         oddNodes[1], oddNodes[j])]_vars

\* C26, its case: on a connected graph the pairing has doubled a selected edge
\* and added an edge that was not selected
C26_PairingAddedPaths ==
    /\ eulerPc = "eulerized"
    /\ isConnectedGraph(eulerGraph)
    /\ \E e \in Range(selectedEdgeIds) : multisetGet(multiset, e) >= 2
    /\ \E e \in DOMAIN multiset.count : e \notin Range(selectedEdgeIds)

\* the nodes reached from a set of nodes over edges of the multiset
RECURSIVE reachedOver(_, _, _)
reachedOver(m, g, nodes) ==
    LET counted == { x \in DOMAIN g.edges : multisetGet(m, x) > 0 }
        ends == { otherEnd(g.edges[e], n) : e \in counted, n \in nodes }
        further == nodes \cup (ends \ {NullNodeId})
    IN  IF further = nodes THEN nodes ELSE reachedOver(m, g, further)

\* the multiset holds edges of the graph only, is connected, has even degree
\* at every node and touches the start node
isEulerianFrom(m, g, start) ==
    /\ DOMAIN m.count \subseteq DOMAIN g.edges
    /\ \A e \in DOMAIN m.count : m.count[e] >= 0
    /\ evenAtEveryNode(m, g)
    /\ multiplicityDegree(m, g, start) > 0
    /\ \A nodeId \in DOMAIN g.nodes :
          multiplicityDegree(m, g, nodeId) > 0 => nodeId \in reachedOver(m, g, {start})

isClosedWalkOver(walk, m, g, start) ==
    /\ Len(walk) > 0
    /\ walk[1].from = start
    /\ walk[Len(walk)].to = start
    /\ \A i \in 1..(Len(walk) - 1) : walk[i].to = walk[i + 1].from
    /\ \A i \in 1..Len(walk) :
          /\ walk[i].edgeId \in DOMAIN g.edges
          /\ \/ walk[i].from = g.edges[walk[i].edgeId].from
                  /\ walk[i].to = g.edges[walk[i].edgeId].to
             \/ walk[i].from = g.edges[walk[i].edgeId].to
                  /\ walk[i].to = g.edges[walk[i].edgeId].from
    /\ \A e \in DOMAIN g.edges :
          Cardinality({ i \in 1..Len(walk) : walk[i].edgeId = e }) = multisetGet(m, e)

\* C27: for a multiset that is connected, has even degree at every node and
\* touches the start node, buildEulerTraversal returns a closed walk from the
\* start node back to it, every step beginning where the step before ended,
\* with every edge as often as its multiplicity.
C27_TraversalIsClosedEulerWalk ==
    (eulerPc = "walked" /\ isEulerianFrom(multiset, eulerGraph, eulerStart))
        => isClosedWalkOver(traversal.value, multiset, eulerGraph, eulerStart)

\* C27, its case: a walk returned over a multiset with a doubled edge, a
\* circle and a branch
C27_WalkOverDoubledEdges ==
    /\ eulerPc = "walked"
    /\ isEulerianFrom(multiset, eulerGraph, eulerStart)
    /\ Len(traversal.value) >= 5
    /\ \E e \in DOMAIN multiset.count : multiset.count[e] >= 2
    /\ \E i \in 1..Len(traversal.value) : traversal.value[i].from = traversal.value[i].to

====
